---- MODULE Spec2Model ----
(***************************************************************************)
(* Keystroke collector backend (collector-app/services/backend/src):       *)
(* the relational store (sessions, keystrokes, keystroke_features), the    *)
(* request handlers that change it, the Feature Extractor and the Pattern  *)
(* Analyzer.                                                               *)
(*                                                                         *)
(* Conventions of the model                                                *)
(*  - SQL NULL / Python None is the string Null; key characters are        *)
(*    one-character strings, so Null never collides with a key.            *)
(*  - timestamps are integers (milliseconds); Python's float arithmetic on *)
(*    them is exact for the values used.                                   *)
(*  - a table is the sequence of its rows in rowid order; AUTOINCREMENT    *)
(*    ids come from counters that never reuse an id.                       *)
(*  - column positions of the layout table are doubled (1.5 cm -> 3) so    *)
(*    that they are integers; euclidean_distance is kept as the squared    *)
(*    distance in those units (no square root on integers).                *)
(***************************************************************************)
EXTENDS Integers, Sequences, FiniteSets, TLC

\* the three tables, the two AUTOINCREMENT counters, the response of the
\* last request, and the argument of the Feature Extractor when it is
\* called on its own
VARIABLES sessions, keystrokes, keystroke_features,
          next_session_id, next_keystroke_id,
          response, call_args

vars == <<sessions, keystrokes, keystroke_features,
          next_session_id, next_keystroke_id,
          response, call_args>>

Null == "NULL"

\* ---------------------------------------------------------------- bounds
\* keystroke ids handed out in the store specification
MaxRows == 3

\* keystroke ids handed out in the Pattern Analyzer specification
MaxPatternRows == 4

\* session ids handed out
MaxSessions == 2

\* annotations in one update_fingers request
MaxAnnotations == 1

\* keystrokes in one call of the Feature Extractor
MaxFeatLen == 2

\* sessions in the store of the coverage collection specification
MaxGrowthSessions == 5

\* keystroke rows in the store of the Coverage Tracker specification
MaxCoverageRows == 3

\* keystroke rows in the store of the duration filter specification
MaxDurationRows == 3

\* keystroke rows in the store of the vocabulary specification
MaxVocabularyRows == 2

\* samples of one pattern handed to the statistics
MaxSamples == 4

\* keystrokes of the default assignment specification
MaxDefaultRows == 2

\* keystrokes of the Deviation Tracker specification
MaxDeviationRows == 4

\* keystrokes of the lifecycle specification
MaxLifecycleRows == 2

\* features of one direct call of save_batch
MaxBatch == 2

\* suggestions asked of suggest_trigraphs_for_gap
MaxCount == 1

\* keystrokes of the pattern details specification
MaxDetailRows == 3

\* keystrokes of the session crop specification
MaxCropRows == 3

\* ------------------------------------------------------- domain constants
MAX_KEYSTROKE_DURATION_MS == 5000

MIN_PATTERN_SAMPLES == 1

MIN_PATTERN_SAMPLES_TRIGRAPH_TEST == 1

VALID_FINGERS ==
    {"left_pinky", "left_ring", "left_middle", "left_index", "left_thumb",
     "right_thumb", "right_index", "right_middle", "right_ring",
     "right_pinky", "unknown"}

VALID_HANDS == {"left", "right", "unknown"}

\* ------------------------------------------------------- keyboard layout
\* (row, 2 * column) of every key of KEY_POSITIONS
KEY_POSITIONS ==
    [q |-> <<-1, -9>>, w |-> <<-1, -6>>, e |-> <<-1, -3>>, r |-> <<-1, 0>>,
     t |-> <<-1, 3>>, y |-> <<-1, 6>>, u |-> <<-1, 9>>, i |-> <<-1, 12>>,
     o |-> <<-1, 15>>, p |-> <<-1, 18>>,
     a |-> <<0, -9>>, s |-> <<0, -6>>, d |-> <<0, -3>>, f |-> <<0, 0>>,
     g |-> <<0, 3>>, h |-> <<0, 6>>, j |-> <<0, 9>>, k |-> <<0, 12>>,
     l |-> <<0, 15>>,
     z |-> <<1, -9>>, x |-> <<1, -6>>, c |-> <<1, -3>>, v |-> <<1, 0>>,
     b |-> <<1, 3>>, n |-> <<1, 6>>, m |-> <<1, 9>>]
    @@ (";" :> <<0, 18>>) @@ ("," :> <<1, 12>>) @@ ("." :> <<1, 15>>)
    @@ ("/" :> <<1, 18>>) @@ (" " :> <<2, 0>>)

FINGER_ASSIGNMENTS ==
    [q |-> "left_ring", a |-> "left_ring", z |-> "left_ring",
     w |-> "left_middle", s |-> "left_middle", x |-> "left_index",
     e |-> "left_middle", d |-> "left_index", c |-> "left_index",
     r |-> "left_index", t |-> "left_index", f |-> "left_index",
     g |-> "left_index", v |-> "left_index", b |-> "right_index",
     y |-> "right_index", u |-> "right_index", h |-> "right_index",
     j |-> "right_index", n |-> "right_index", m |-> "right_index",
     i |-> "right_middle", k |-> "right_index",
     o |-> "right_middle", l |-> "right_middle",
     p |-> "right_ring"]
    @@ ("." :> "right_ring") @@ ("," :> "right_middle")
    @@ (";" :> "right_pinky") @@ ("/" :> "right_pinky")
    @@ (" " :> "right_thumb")

OVERWRITABLE_LETTERS == {"e", "b", "u", "i", "y", "k"}

\* finger.startswith('left')
StartsWithLeft(finger) ==
    finger \in {"left_pinky", "left_ring", "left_middle", "left_index",
                "left_thumb"}

HAND_ASSIGNMENTS ==
    [key \in DOMAIN FINGER_ASSIGNMENTS |->
        IF StartsWithLeft(FINGER_ASSIGNMENTS[key]) THEN "left" ELSE "right"]

\* str.lower() on the upper-case letters the model's inputs use
Lower(key) ==
    CASE key = "T" -> "t"
      [] key = "H" -> "h"
      [] key = "E" -> "e"
      [] OTHER -> key

get_key_position(key) ==
    IF Lower(key) \in DOMAIN KEY_POSITIONS
    THEN KEY_POSITIONS[Lower(key)] ELSE <<0, 0>>

get_finger(key) ==
    IF Lower(key) \in DOMAIN FINGER_ASSIGNMENTS
    THEN FINGER_ASSIGNMENTS[Lower(key)] ELSE "unknown"

get_hand(key) ==
    IF Lower(key) \in DOMAIN HAND_ASSIGNMENTS
    THEN HAND_ASSIGNMENTS[Lower(key)] ELSE "unknown"

Abs(x) == IF x < 0 THEN -x ELSE x

\* squared distance, rows doubled to the unit of the doubled columns
euclidean_distance(key1, key2) ==
    LET pos1 == get_key_position(key1)
        pos2 == get_key_position(key2)
        row_diff == 2 * (pos1[1] - pos2[1])
        col_diff == pos1[2] - pos2[2]
    IN  row_diff * row_diff + col_diff * col_diff

row_difference(key1, key2) ==
    Abs(get_key_position(key1)[1] - get_key_position(key2)[1])

\* finger.split('_')[0] if '_' in finger else finger
HandPrefix(finger) ==
    CASE StartsWithLeft(finger) -> "left"
      [] finger \in {"right_thumb", "right_index", "right_middle",
                     "right_ring", "right_pinky"} -> "right"
      [] OTHER -> finger

is_inward_roll(key1, key2, finger1, finger2) ==
    LET pos1 == get_key_position(key1)
        pos2 == get_key_position(key2)
        hand1 == HandPrefix(finger1)
        hand2 == HandPrefix(finger2)
    IN  IF hand1 # hand2 THEN FALSE
        ELSE IF hand1 = "left" THEN pos2[2] > pos1[2]
        ELSE pos2[2] < pos1[2]

\* ----------------------------------------------------- Python truthiness
\* "if x:" / "not x" on an Optional[str]: None and '' are falsy
Falsy(v) == v = Null \/ v = ""

\* Optional values that are records: None is <<>>, a value x is <<x>>
None == <<>>

Some(x) == <<x>>

\* ----------------------------------------------------- Feature Extractor
\* fitts_law_cost = log2(1 + distance / KEY_SIZE_CM) is a real number that
\* depends on the distance only; the feature records carry the distance.
extract_transition_features(key_from, key_to, finger_from, finger_to, hand_from, hand_to) ==
    LET ffrom == IF finger_from = Null THEN get_finger(key_from)
                 ELSE finger_from
        fto == IF finger_to = Null THEN get_finger(key_to) ELSE finger_to
        hfrom == IF hand_from = Null THEN get_hand(key_from) ELSE hand_from
        hto == IF hand_to = Null THEN get_hand(key_to) ELSE hand_to
        same_hand == IF hfrom = hto THEN 1 ELSE 0
        same_finger == IF ffrom = fto THEN 1 ELSE 0
        inward == IF same_hand = 1
                  THEN (IF is_inward_roll(key_from, key_to, ffrom, fto)
                        THEN 1 ELSE 0)
                  ELSE 0
    IN  [finger_from |-> ffrom, finger_to |-> fto,
         same_hand |-> same_hand, same_finger |-> same_finger,
         euclidean_distance |-> euclidean_distance(key_from, key_to),
         row_difference |-> row_difference(key_from, key_to),
         is_inward |-> inward]

\* the loop body without the None placeholder: "continue" before the append
SessionFeaturesStepNoPlaceholder(ks_list, i, features) ==
    IF i = 1 \/ Falsy(ks_list[i].prev_key)
    THEN features
    ELSE Append(features,
                Some(extract_transition_features(
                        ks_list[i - 1].key, ks_list[i].key,
                        ks_list[i - 1].finger, ks_list[i].finger,
                        ks_list[i - 1].hand, ks_list[i].hand)))

\* the loop body taking the source finger and hand from keystroke i itself
SessionFeaturesStepOwnSource(ks_list, i, features) ==
    IF i = 1 \/ Falsy(ks_list[i].prev_key)
    THEN Append(features, None)
    ELSE Append(features,
                Some(extract_transition_features(
                        ks_list[i - 1].key, ks_list[i].key,
                        ks_list[i].finger, ks_list[i].finger,
                        ks_list[i].hand, ks_list[i].hand)))

\* one iteration of the loop of FeatureService.compute_session_features:
\* the list of features after keystroke i has been handled
SessionFeaturesStep(ks_list, i, features) ==
    IF i = 1 \/ Falsy(ks_list[i].prev_key)
    THEN Append(features, None)
    ELSE Append(features,
                Some(extract_transition_features(
                        ks_list[i - 1].key, ks_list[i].key,
                        ks_list[i - 1].finger, ks_list[i].finger,
                        ks_list[i - 1].hand, ks_list[i].hand)))

RECURSIVE SessionFeaturesLoop(_, _, _)
SessionFeaturesLoop(ks_list, i, features) ==
    IF i > Len(ks_list) THEN features
    ELSE SessionFeaturesLoop(ks_list, i + 1,
                             SessionFeaturesStep(ks_list, i, features))

\* FeatureService.compute_session_features
compute_session_features(ks_list) == SessionFeaturesLoop(ks_list, 1, <<>>)

\* features.py: the module-level compute_session_features (same loop,
\* written out a second time in the source)
LegacyFeaturesStep(ks_list, i, features) ==
    IF i = 1 \/ Falsy(ks_list[i].prev_key)
    THEN Append(features, None)
    ELSE LET prev_ks == ks_list[i - 1]
             ks == ks_list[i]
         IN  Append(features,
                    Some(extract_transition_features(
                            prev_ks.key, ks.key, prev_ks.finger, ks.finger,
                            prev_ks.hand, ks.hand)))

RECURSIVE LegacyFeaturesLoop(_, _, _)
LegacyFeaturesLoop(ks_list, i, features) ==
    IF i > Len(ks_list) THEN features
    ELSE LegacyFeaturesLoop(ks_list, i + 1,
                            LegacyFeaturesStep(ks_list, i, features))

legacy_compute_session_features(ks_list) ==
    LegacyFeaturesLoop(ks_list, 1, <<>>)

\* is position i (1-based) of the list missing an annotation
MissingAnnotation(ks) == Falsy(ks.finger) \/ Falsy(ks.hand)

\* FeatureService.check_annotations_complete: the 0-based indices, ascending
RECURSIVE CheckAnnotationsLoop(_, _, _)
CheckAnnotationsLoop(ks_list, i, missing) ==
    IF i > Len(ks_list) THEN missing
    ELSE CheckAnnotationsLoop(ks_list, i + 1,
            IF MissingAnnotation(ks_list[i])
            THEN Append(missing, i - 1) ELSE missing)

\* the check stopping at the first keystroke without annotation
check_annotations_first_only(ks_list) ==
    LET missing == CheckAnnotationsLoop(ks_list, 1, <<>>)
    IN  IF missing = <<>> THEN missing ELSE <<missing[1]>>

check_annotations_complete(ks_list) == CheckAnnotationsLoop(ks_list, 1, <<>>)

\* ------------------------------------------------------------- the store
\* SELECT * FROM keystrokes WHERE session_id = ? ORDER BY id
SessionKeystrokes(table, session_id) ==
    SelectSeq(table, LAMBDA row : row.session_id = session_id)

SessionExists(session_id) ==
    \E i \in DOMAIN sessions : sessions[i].id = session_id

\* SessionRepository.get_with_keystrokes: None when there is no session row
get_with_keystrokes(table, session_id) ==
    IF SessionExists(session_id)
    THEN Some(SessionKeystrokes(table, session_id))
    ELSE None

\* one feature of FeatureRepository.save_batch: update the rows of the
\* keystroke id when there is one, insert a row otherwise
\* an INSERT whether or not the keystroke has a row
SaveFeatureInsertOnly(table, feat) == Append(table, feat)

SaveFeature(table, feat) ==
    IF \E i \in DOMAIN table : table[i].keystroke_id = feat.keystroke_id
    THEN [i \in DOMAIN table |->
            IF table[i].keystroke_id = feat.keystroke_id
            THEN feat ELSE table[i]]
    ELSE Append(table, feat)

RECURSIVE SaveBatchLoop(_, _, _)
SaveBatchLoop(table, batch, i) ==
    IF i > Len(batch) THEN table
    ELSE SaveBatchLoop(SaveFeature(table, batch[i]), batch, i + 1)

\* FeatureRepository.save_batch: the table afterwards (the returned count is
\* the length of the batch, which holds no None)
save_batch(table, batch) == SaveBatchLoop(table, batch, 1)

\* the loop of compute_and_save_for_session that zips keystrokes with
\* features and keeps the features that are not None, keyed by keystroke id
RECURSIVE FeaturesWithIds(_, _, _)
FeaturesWithIds(ks_list, features, i) ==
    IF i > Len(ks_list) \/ i > Len(features) THEN <<>>
    ELSE (IF features[i] # None
          THEN <<[keystroke_id |-> ks_list[i].id] @@ features[i][1]>>
          ELSE <<>>)
         \o FeaturesWithIds(ks_list, features, i + 1)

\* FeatureService.compute_and_save_for_session: the batch handed to
\* save_batch
compute_and_save_batch(ks_list) ==
    FeaturesWithIds(ks_list, compute_session_features(ks_list), 1)

\* ------------------------------------------------------ request inputs
\* what a client types: the text "the", over and over
TypedText == <<"t", "h", "e">>

KeyAt(i) == TypedText[((i - 1) % Len(TypedText)) + 1]

\* session payloads of n keystrokes: every timestamp is any value of
\* times (ties and decreasing timestamps included) and every prev_key is
\* either null or the key typed before
Payloads(n, times) ==
    {[i \in 1..n |->
        [key |-> KeyAt(i), timestamp |-> ts[i],
         prev_key |-> IF brk[i] THEN Null ELSE KeyAt(i - 1)]] :
     ts \in [1..n -> times], brk \in [1..n -> BOOLEAN]}

StoreTimes == {100, 200}

StoreModes == {"trigraph_test"}

AnnotationValues == {<<"right_index", "right">>}

AnnotationInputs ==
    {[keystroke_id |-> k, finger |-> v[1], hand |-> v[2]] :
     k \in 1..MaxRows, v \in AnnotationValues}

AnnotationLists ==
    UNION {[1..n -> AnnotationInputs] : n \in 0..MaxAnnotations}

\* a response with every field empty; each handler fills in its own
NoResponse ==
    [endpoint |-> "none", status |-> "none", session_id |-> 0, count |-> 0,
     features_count |-> -1, missing_indices |-> <<>>,
     mode_filter |-> Null, digraphs |-> <<>>, trigraphs |-> <<>>,
     transitions |-> <<>>, features |-> <<>>, coverage |-> <<>>,
     stats |-> <<>>]

\* ------------------------------------------------------------- handlers
\* database.save_session as called by POST /submit_session: the pydantic
\* Keystroke has no finger and no hand, so both are stored as NULL
save_session(mode, payload) ==
    /\ sessions' = Append(sessions, [id |-> next_session_id, mode |-> mode])
    /\ keystrokes' = keystrokes \o
          [i \in 1..Len(payload) |->
             [id |-> next_keystroke_id + i - 1,
              session_id |-> next_session_id,
              key |-> payload[i].key,
              timestamp |-> payload[i].timestamp,
              prev_key |-> payload[i].prev_key,
              finger |-> Null, hand |-> Null]]
    /\ next_session_id' = next_session_id + 1
    /\ next_keystroke_id' = next_keystroke_id + Len(payload)
    /\ response' = [NoResponse EXCEPT !.endpoint = "submit_session", !.status = "saved",
                                      !.session_id = next_session_id,
                                      !.count = Len(payload)]
    /\ UNCHANGED <<keystroke_features, call_args>>

\* one UPDATE of KeystrokeRepository.update_fingers_batch
UpdateFinger(table, session_id, ann) ==
    [i \in DOMAIN table |->
        IF table[i].id = ann.keystroke_id /\ table[i].session_id = session_id
        THEN [table[i] EXCEPT !.finger = ann.finger, !.hand = ann.hand]
        ELSE table[i]]

RECURSIVE update_fingers_batch(_, _, _, _)
update_fingers_batch(table, session_id, annotations, i) ==
    IF i > Len(annotations) THEN table
    ELSE update_fingers_batch(UpdateFinger(table, session_id, annotations[i]),
                              session_id, annotations, i + 1)

\* the rowcount sum update_fingers_batch returns
UpdatedCount(table, session_id, annotations) ==
    Cardinality({i \in DOMAIN annotations :
        \E j \in DOMAIN table :
            /\ table[j].id = annotations[i].keystroke_id
            /\ table[j].session_id = session_id})

\* does SessionService.update_finger_annotations save features for this
\* session: compute_features is True and the session exists
SavesAfterUpdate(session, ks_list) == session # None

\* POST /update_fingers -> SessionService.update_finger_annotations with
\* compute_features=True
update_fingers(session_id, annotations) ==
    LET table == update_fingers_batch(keystrokes, session_id, annotations, 1)
        session == get_with_keystrokes(table, session_id)
        ks_list == SessionKeystrokes(table, session_id)
        batch == compute_and_save_batch(ks_list)
        saves == SavesAfterUpdate(session, ks_list)
    IN  /\ keystrokes' = table
        /\ keystroke_features' =
              IF saves THEN save_batch(keystroke_features, batch)
              ELSE keystroke_features
        /\ response' = [NoResponse EXCEPT
              !.endpoint = "update_fingers", !.status = "updated", !.session_id = session_id,
              !.count = UpdatedCount(keystrokes, session_id, annotations),
              !.features_count = IF saves THEN Len(batch) ELSE -1]
        /\ UNCHANGED <<sessions, next_session_id, next_keystroke_id,
                       call_args>>

\* POST /compute_features/{session_id}
compute_features(session_id) ==
    LET session == get_with_keystrokes(keystrokes, session_id)
        ks_list == SessionKeystrokes(keystrokes, session_id)
        missing == check_annotations_complete(ks_list)
        batch == compute_and_save_batch(ks_list)
    IN  /\ IF session = None
           THEN /\ response' = [NoResponse EXCEPT
                       !.endpoint = "compute_features", !.status = "404",
                       !.session_id = session_id]
                /\ UNCHANGED keystroke_features
           ELSE IF missing # <<>>
           THEN /\ response' = [NoResponse EXCEPT
                       !.endpoint = "compute_features",
                       !.status = "incomplete", !.session_id = session_id,
                       !.count = Len(missing), !.missing_indices = missing]
                /\ UNCHANGED keystroke_features
           ELSE /\ keystroke_features' = save_batch(keystroke_features, batch)
                /\ response' = [NoResponse EXCEPT
                       !.endpoint = "compute_features",
                       !.status = "computed", !.session_id = session_id,
                       !.features_count = Len(batch)]
        /\ UNCHANGED <<sessions, keystrokes, next_session_id,
                       next_keystroke_id, call_args>>

\* SELECT id FROM keystrokes WHERE session_id = ? AND timestamp > ?
\* ORDER BY timestamp ASC LIMIT 1: the ids the query may return (rows that
\* tie on the smallest timestamp come back in an order SQL leaves open)
NextKeystrokeIds(table, deleted_ks) ==
    LET later == {i \in DOMAIN table :
                    /\ table[i].session_id = deleted_ks.session_id
                    /\ table[i].timestamp > deleted_ks.timestamp}
    IN  {table[i].id : i \in {j \in later :
            \A k \in later : table[j].timestamp <= table[k].timestamp}}

\* DELETE FROM keystrokes WHERE id = ?, then
\* UPDATE keystrokes SET prev_key = NULL WHERE id = next_ks (0: no next_ks)
DeleteRow(table, keystroke_id, next_id) ==
    LET kept == SelectSeq(table, LAMBDA row : row.id # keystroke_id)
    IN  [i \in DOMAIN kept |->
            IF kept[i].id = next_id
            THEN [kept[i] EXCEPT !.prev_key = Null] ELSE kept[i]]

\* the rows of keystroke_features that go with the deleted keystroke:
\* ON DELETE CASCADE of the foreign key (PRAGMA foreign_keys = ON) in
\* KeystrokeRepository.delete, an explicit DELETE in delete_keystroke_db
DeleteFeatures(table, keystroke_id) ==
    SelectSeq(table, LAMBDA row : row.keystroke_id # keystroke_id)

KeystrokeRow(table, keystroke_id) ==
    {table[i] : i \in {j \in DOMAIN table : table[j].id = keystroke_id}}

\* DELETE /keystroke/{keystroke_id} -> KeystrokeRepository.delete
delete_keystroke(keystroke_id) ==
    /\ IF KeystrokeRow(keystrokes, keystroke_id) = {}
       THEN /\ response' = [NoResponse EXCEPT !.endpoint = "delete_keystroke",
                                             !.status = "404"]
            /\ UNCHANGED <<keystrokes, keystroke_features>>
       ELSE \E deleted_ks \in KeystrokeRow(keystrokes, keystroke_id) :
            LET next_ids == NextKeystrokeIds(keystrokes, deleted_ks)
            IN  \E next_id \in (IF next_ids = {} THEN {0} ELSE next_ids) :
                /\ keystrokes' = DeleteRow(keystrokes, keystroke_id, next_id)
                /\ keystroke_features' =
                      DeleteFeatures(keystroke_features, keystroke_id)
                /\ response' = [NoResponse EXCEPT !.endpoint = "delete_keystroke",
                                                  !.status = "deleted",
                                                  !.count = keystroke_id]
    /\ UNCHANGED <<sessions, next_session_id, next_keystroke_id,
                   call_args>>

\* database.delete_keystroke_db (the flat module kept for compatibility)
delete_keystroke_db(keystroke_id) ==
    /\ IF KeystrokeRow(keystrokes, keystroke_id) = {}
       THEN /\ response' = [NoResponse EXCEPT !.endpoint = "delete_keystroke",
                                             !.status = "404"]
            /\ UNCHANGED <<keystrokes, keystroke_features>>
       ELSE \E deleted_ks \in KeystrokeRow(keystrokes, keystroke_id) :
            LET next_ids == NextKeystrokeIds(keystrokes, deleted_ks)
            IN  \E next_id \in (IF next_ids = {} THEN {0} ELSE next_ids) :
                /\ keystroke_features' =
                      DeleteFeatures(keystroke_features, keystroke_id)
                /\ keystrokes' = DeleteRow(keystrokes, keystroke_id, next_id)
                /\ response' = [NoResponse EXCEPT !.endpoint = "delete_keystroke",
                                                  !.status = "deleted",
                                                  !.count = keystroke_id]
    /\ UNCHANGED <<sessions, next_session_id, next_keystroke_id,
                   call_args>>

\* ------------------------------------------------------ Pattern Analyzer
\* the rows of keystrokes joined with their session, filtered by mode when
\* a mode filter is given
FetchedRows(mode_filter) ==
    {keystrokes[i] : i \in {j \in DOMAIN keystrokes :
        \E n \in DOMAIN sessions :
            /\ sessions[n].id = keystrokes[j].session_id
            /\ (Falsy(mode_filter) \/ sessions[n].mode = mode_filter)}}

\* ORDER BY k.session_id, k.id
RowBefore(a, b) ==
    \/ a.session_id < b.session_id
    \/ a.session_id = b.session_id /\ a.id < b.id

RECURSIVE OrderRows(_)
OrderRows(rows) ==
    IF rows = {} THEN <<>>
    ELSE LET first == CHOOSE a \in rows :
                         \A b \in rows \ {a} : RowBefore(a, b)
         IN  <<first>> \o OrderRows(rows \ {first})

\* PatternService._fetch_keystrokes
fetch_keystrokes(mode_filter) == OrderRows(FetchedRows(mode_filter))

\* a digraph for every keystroke that has a key, null prev_key or not
DigraphEligibleKeyOnly(ks) == ~Falsy(ks.key)

\* "if prev_key and key"
DigraphEligible(ks) == ~Falsy(ks.prev_key) /\ ~Falsy(ks.key)

\* "if prev_timestamp": the session has a previous timestamp and it is not
\* 0 (0.0 is falsy in Python)
HasPrevTimestamp(prev_ks_by_session, session_id) ==
    /\ session_id \in DOMAIN prev_ks_by_session
    /\ prev_ks_by_session[session_id].timestamp # 0

\* both ends of the interval included
DurationOkInclusive(duration) ==
    0 <= duration /\ duration <= MAX_KEYSTROKE_DURATION_MS

\* "0 < duration < MAX_KEYSTROKE_DURATION_MS"
DurationOk(duration) == 0 < duration /\ duration < MAX_KEYSTROKE_DURATION_MS

\* only the keystroke just before is compared with the session id
TrigraphSameSessionPrevOnly(log, i) ==
    log[i - 1].session_id = log[i].session_id

\* "if prev_prev_ks[3] == session_id and prev_ks[3] == session_id"
TrigraphSameSession(log, i) ==
    /\ log[i - 2].session_id = log[i].session_id
    /\ log[i - 1].session_id = log[i].session_id

\* "if prev_prev_key and prev_key_actual and key"
TrigraphKeys(log, i) ==
    ~Falsy(log[i - 2].key) /\ ~Falsy(log[i - 1].key) /\ ~Falsy(log[i].key)

\* prev_ks_by_session[session_id] = timestamp; ks records which keystroke
\* the timestamp was taken from (not in the source: it lets a sample name
\* the keystrokes it was measured between)
SetPrev(prev_ks_by_session, ks) ==
    [s \in DOMAIN prev_ks_by_session \cup {ks.session_id} |->
        IF s = ks.session_id
        THEN [timestamp |-> ks.timestamp, ks |-> ks.id]
        ELSE prev_ks_by_session[s]]

\* the digraph sample of keystroke i of the log, if it yields one: the
\* pattern is prev_key + key, the duration runs from the previous timestamp
\* of the session; ks lists the ids of the keystrokes measured
DigraphSample(log, i, prev_ks_by_session) ==
    LET ks == log[i]
        prev == prev_ks_by_session[ks.session_id]
        duration == ks.timestamp - prev.timestamp
    IN  IF /\ DigraphEligible(ks)
           /\ HasPrevTimestamp(prev_ks_by_session, ks.session_id)
           /\ DurationOk(duration)
        THEN <<[pattern |-> <<ks.prev_key, ks.key>>, duration |-> duration,
                ks |-> <<prev.ks, ks.id>>]>>
        ELSE <<>>

\* the trigraph sample of keystroke i of the log, if it yields one
TrigraphSample(log, i) ==
    LET duration == log[i].timestamp - log[i - 2].timestamp
    IN  IF /\ i >= 3
           /\ TrigraphSameSession(log, i)
           /\ TrigraphKeys(log, i)
           /\ DurationOk(duration)
        THEN <<[pattern |-> <<log[i - 2].key, log[i - 1].key, log[i].key>>,
                duration |-> duration,
                ks |-> <<log[i - 2].id, log[i - 1].id, log[i].id>>]>>
        ELSE <<>>

\* the loop of analyze_patterns; acc holds prev_ks_by_session and, for each
\* of the three stats dictionaries, its samples in the order they were
\* appended (the times list of a pattern is the subsequence of its samples)
RECURSIVE AnalyzeLoop(_, _, _)
AnalyzeLoop(log, i, acc) ==
    IF i > Len(log) THEN acc
    ELSE AnalyzeLoop(log, i + 1,
            [prev_ks_by_session |-> SetPrev(acc.prev_ks_by_session, log[i]),
             digraphs |-> acc.digraphs
                            \o DigraphSample(log, i, acc.prev_ks_by_session),
             transitions |-> acc.transitions
                            \o DigraphSample(log, i, acc.prev_ks_by_session),
             trigraphs |-> acc.trigraphs \o TrigraphSample(log, i)])

EmptyStats ==
    [prev_ks_by_session |-> <<>>, digraphs |-> <<>>, transitions |-> <<>>,
     trigraphs |-> <<>>]

\* GET /patterns -> PatternService.analyze_patterns
analyze_patterns(mode_filter) ==
    LET stats == AnalyzeLoop(fetch_keystrokes(mode_filter), 1, EmptyStats)
    IN  /\ response' = [NoResponse EXCEPT
              !.endpoint = "patterns", !.status = "ok",
              !.mode_filter = mode_filter,
              !.digraphs = stats.digraphs,
              !.transitions = stats.transitions,
              !.trigraphs = stats.trigraphs]
        /\ UNCHANGED <<sessions, keystrokes, keystroke_features,
                       next_session_id, next_keystroke_id, call_args>>

\* the loop of get_all_patterns_detailed (no transition statistics)
DetailedDigraphSample(log, i, prev_ks_by_session) ==
    LET ks == log[i]
        prev == prev_ks_by_session[ks.session_id]
        duration == ks.timestamp - prev.timestamp
    IN  IF /\ ~Falsy(ks.prev_key) /\ ~Falsy(ks.key)
           /\ HasPrevTimestamp(prev_ks_by_session, ks.session_id)
           /\ DurationOk(duration)
        THEN <<[pattern |-> <<ks.prev_key, ks.key>>, duration |-> duration,
                ks |-> <<prev.ks, ks.id>>]>>
        ELSE <<>>

DetailedTrigraphSample(log, i) ==
    LET duration == log[i].timestamp - log[i - 2].timestamp
    IN  IF /\ i >= 3
           /\ log[i - 2].session_id = log[i].session_id
           /\ log[i - 1].session_id = log[i].session_id
           /\ TrigraphKeys(log, i)
           /\ DurationOk(duration)
        THEN <<[pattern |-> <<log[i - 2].key, log[i - 1].key, log[i].key>>,
                duration |-> duration,
                ks |-> <<log[i - 2].id, log[i - 1].id, log[i].id>>]>>
        ELSE <<>>

RECURSIVE DetailedLoop(_, _, _)
DetailedLoop(log, i, acc) ==
    IF i > Len(log) THEN acc
    ELSE DetailedLoop(log, i + 1,
            [prev_ks_by_session |-> SetPrev(acc.prev_ks_by_session, log[i]),
             digraphs |-> acc.digraphs
                 \o DetailedDigraphSample(log, i, acc.prev_ks_by_session),
             transitions |-> <<>>,
             trigraphs |-> acc.trigraphs \o DetailedTrigraphSample(log, i)])

\* GET /patterns/detailed -> PatternService.get_all_patterns_detailed
get_all_patterns_detailed(mode_filter) ==
    LET stats == DetailedLoop(fetch_keystrokes(mode_filter), 1, EmptyStats)
    IN  /\ response' = [NoResponse EXCEPT
              !.endpoint = "patterns_detailed", !.status = "ok",
              !.mode_filter = mode_filter,
              !.digraphs = stats.digraphs,
              !.trigraphs = stats.trigraphs]
        /\ UNCHANGED <<sessions, keystrokes, keystroke_features,
                       next_session_id, next_keystroke_id, call_args>>

\* ------------------------------------------------------ Coverage Tracker
FINGERS ==
    <<"left_pinky", "left_ring", "left_middle", "left_index",
      "right_index", "right_middle", "right_ring", "right_pinky">>

MIN_SAMPLES_PER_PAIR == 5

TARGET_SAMPLES_PER_PAIR == 8

MIN_TOTAL_TRIGRAPHS == 400

TARGET_TOTAL_TRIGRAPHS == 500

\* "x in FINGERS"
InFingers(finger) == \E i \in DOMAIN FINGERS : FINGERS[i] = finger

\* round(numerator / denominator, 1) in tenths; a tie goes to the even
\* tenth (the quotients that tie here, x.25 and x.75, are exact in binary
\* floating point, so Python rounds them half to even)
RoundTenths(numerator, denominator) ==
    LET scaled == 10 * numerator
        floor == scaled \div denominator
        rest == 2 * (scaled % denominator)
    IN  IF rest < denominator THEN floor
        ELSE IF rest > denominator THEN floor + 1
        ELSE IF floor % 2 = 0 THEN floor ELSE floor + 1

\* the rows get_coverage reads from the two tables: joined with sessions
\* and filtered by mode when a filter is given, every keystroke otherwise
CoverageRows(ks_table, sess_table, mode_filter) ==
    IF Falsy(mode_filter)
    THEN {ks_table[i] : i \in DOMAIN ks_table}
    ELSE {ks_table[i] : i \in {j \in DOMAIN ks_table :
            \E n \in DOMAIN sess_table :
                /\ sess_table[n].id = ks_table[j].session_id
                /\ sess_table[n].mode = mode_filter}}

\* the layout default of the key, whatever the annotation
CoverageFingerDefaultOnly(row) == get_finger(row.key)

\* "finger = row['finger'] or get_finger(key)"
CoverageFinger(row) ==
    IF Falsy(row.finger) THEN get_finger(row.key) ELSE row.finger

\* "prev_finger = get_finger(prev_key) if prev_key else None"
CoveragePrevFinger(row) ==
    IF Falsy(row.prev_key) THEN Null ELSE get_finger(row.prev_key)

\* "if prev_key and prev_finger and finger" and both fingers in FINGERS
CoveragePairTracked(row) ==
    /\ ~Falsy(row.prev_key)
    /\ ~Falsy(CoveragePrevFinger(row))
    /\ ~Falsy(CoverageFinger(row))
    /\ InFingers(CoveragePrevFinger(row))
    /\ InFingers(CoverageFinger(row))

\* the sample row i of the log adds to pair_counts, if it adds one; ks
\* lists the ids of the keystrokes the duration was measured between
CoverageSample(log, i, prev_ks) ==
    LET row == log[i]
        prev == prev_ks[row.session_id]
        duration == row.timestamp - prev.timestamp
    IN  IF /\ CoveragePairTracked(row)
           /\ row.session_id \in DOMAIN prev_ks
           /\ DurationOk(duration)
        THEN <<[pair |-> <<CoveragePrevFinger(row), CoverageFinger(row)>>,
                duration |-> duration, ks |-> <<prev.ks, row.id>>]>>
        ELSE <<>>

\* the loop of get_coverage; acc holds prev_ks and the samples added to
\* pair_counts, in the order they were added
RECURSIVE CoverageLoop(_, _, _)
CoverageLoop(log, i, acc) ==
    IF i > Len(log) THEN acc
    ELSE CoverageLoop(log, i + 1,
            [prev_ks |-> SetPrev(acc.prev_ks, log[i]),
             samples |-> acc.samples \o CoverageSample(log, i, acc.prev_ks)])

RECURSIVE SumSeq(_)
SumSeq(s) == IF s = <<>> THEN 0 ELSE Head(s) + SumSeq(Tail(s))

RECURSIVE Durations(_)
Durations(samples) ==
    IF samples = <<>> THEN <<>>
    ELSE <<Head(samples).duration>> \o Durations(Tail(samples))

\* pair_counts: for every pair that got a sample, its count and its times
PairCounts(samples) ==
    [pair \in {samples[i].pair : i \in DOMAIN samples} |->
        LET of_pair == SelectSeq(samples, LAMBDA s : s.pair = pair)
        IN  [count |-> Len(of_pair), times |-> Durations(of_pair)]]

\* "pair_counts.get(pair_key, {'count': 0, 'times': []})"
PairData(pair_counts, pair) ==
    IF pair \in DOMAIN pair_counts THEN pair_counts[pair]
    ELSE [count |-> 0, times |-> <<>>]

\* the thresholds compared with > in place of >=
CellStatusStrict(count) ==
    IF count > TARGET_SAMPLES_PER_PAIR THEN "good"
    ELSE IF count > MIN_SAMPLES_PER_PAIR THEN "adequate"
    ELSE IF count > 0 THEN "low"
    ELSE "missing"

\* the two upper labels swapped
CellStatusSwapped(count) ==
    IF count >= TARGET_SAMPLES_PER_PAIR THEN "adequate"
    ELSE IF count >= MIN_SAMPLES_PER_PAIR THEN "good"
    ELSE IF count > 0 THEN "low"
    ELSE "missing"

\* the status of a cell, as the if/elif chain assigns it
CellStatus(count) ==
    IF count >= TARGET_SAMPLES_PER_PAIR THEN "good"
    ELSE IF count >= MIN_SAMPLES_PER_PAIR THEN "adequate"
    ELSE IF count > 0 THEN "low"
    ELSE "missing"

\* CoverageService._build_coverage_matrix (avg_time in tenths)
build_coverage_matrix(pair_counts) ==
    [i \in DOMAIN FINGERS |-> [j \in DOMAIN FINGERS |->
        LET data == PairData(pair_counts, <<FINGERS[i], FINGERS[j]>>)
        IN  [from |-> FINGERS[i], to |-> FINGERS[j], count |-> data.count,
             avg_time |-> IF data.times = <<>> THEN Null
                          ELSE RoundTenths(SumSeq(data.times),
                                           Len(data.times)),
             status |-> CellStatus(data.count)]]]

\* the gaps in the order the double loop over FINGERS appends them
RECURSIVE GapsLoop(_, _)
GapsLoop(pair_counts, n) ==
    IF n >= Len(FINGERS) * Len(FINGERS) THEN <<>>
    ELSE LET from_finger == FINGERS[(n \div Len(FINGERS)) + 1]
             to_finger == FINGERS[(n % Len(FINGERS)) + 1]
             count == PairData(pair_counts, <<from_finger, to_finger>>).count
         IN  (IF count < MIN_SAMPLES_PER_PAIR
              THEN <<[from |-> from_finger, to |-> to_finger,
                      current |-> count,
                      needed |-> MIN_SAMPLES_PER_PAIR - count,
                      priority |-> IF count = 0 THEN "high" ELSE "medium"]>>
              ELSE <<>>) \o GapsLoop(pair_counts, n + 1)

\* the sort key "(0 if x['priority'] == 'high' else 1, x['current'])"
GapSortKey(gap) == <<IF gap.priority = "high" THEN 0 ELSE 1, gap.current>>

\* list.sort is stable: the gaps of each key, keys ascending, each group in
\* the order it had (the keys of a gap list are <<0, 0>> and <<1, c>> with
\* 0 < c < MIN_SAMPLES_PER_PAIR; <<1, 0>> and <<0, c>> complete the range)
RECURSIVE SortGaps(_, _)
SortGaps(gaps, n) ==
    IF n >= 2 * MIN_SAMPLES_PER_PAIR THEN <<>>
    ELSE LET key == <<n \div MIN_SAMPLES_PER_PAIR, n % MIN_SAMPLES_PER_PAIR>>
         IN  SelectSeq(gaps, LAMBDA g : GapSortKey(g) = key)
                \o SortGaps(gaps, n + 1)

\* the gap list left in the order of the double loop
identify_gaps_unsorted(pair_counts) == GapsLoop(pair_counts, 0)

\* CoverageService._identify_gaps
identify_gaps(pair_counts) == SortGaps(GapsLoop(pair_counts, 0), 0)

\* "SELECT COUNT(*) FROM sessions [WHERE mode = ?]"
CountSessions(sess_table, mode_filter) ==
    Cardinality({n \in DOMAIN sess_table :
        Falsy(mode_filter) \/ sess_table[n].mode = mode_filter})

\* the pairs counted when they have more than minimum samples
CountPairsAbove(pair_counts, minimum) ==
    Cardinality({pair \in DOMAIN pair_counts :
        pair_counts[pair].count > minimum})

\* the number of pairs of pair_counts with at least minimum samples
CountPairs(pair_counts, minimum) ==
    Cardinality({pair \in DOMAIN pair_counts :
        pair_counts[pair].count >= minimum})

Min(a, b) == IF a < b THEN a ELSE b

\* what get_coverage returns for the two tables (percentages in tenths);
\* samples is pair_counts before it is grouped by pair
CoverageOf(ks_table, sess_table, mode_filter) ==
    LET log == OrderRows(CoverageRows(ks_table, sess_table, mode_filter))
        total_trigraphs == CountSessions(sess_table, mode_filter)
        samples == CoverageLoop(log, 1, [prev_ks |-> <<>>,
                                         samples |-> <<>>]).samples
        pair_counts == PairCounts(samples)
        total_pairs == Len(FINGERS) * Len(FINGERS)
        covered_pairs == CountPairs(pair_counts, MIN_SAMPLES_PER_PAIR)
    IN  [matrix |-> build_coverage_matrix(pair_counts),
         gaps |-> identify_gaps(pair_counts),
         summary |->
            [total_trigraphs |-> total_trigraphs,
             target_trigraphs |-> TARGET_TOTAL_TRIGRAPHS,
             min_trigraphs |-> MIN_TOTAL_TRIGRAPHS,
             trigraph_progress |->
                Min(1000, RoundTenths(100 * total_trigraphs,
                                      TARGET_TOTAL_TRIGRAPHS)),
             total_pairs |-> total_pairs,
             covered_pairs |-> covered_pairs,
             well_covered_pairs |->
                CountPairs(pair_counts, TARGET_SAMPLES_PER_PAIR),
             pair_coverage_percent |->
                RoundTenths(100 * covered_pairs, total_pairs),
             min_samples_per_pair |-> MIN_SAMPLES_PER_PAIR,
             target_samples_per_pair |-> TARGET_SAMPLES_PER_PAIR],
         fingers |-> FINGERS,
         samples |-> samples]

\* GET /coverage -> CoverageService.get_coverage
get_coverage(mode_filter) ==
    /\ response' = [NoResponse EXCEPT
          !.endpoint = "coverage", !.status = "ok",
          !.mode_filter = mode_filter,
          !.coverage = CoverageOf(keystrokes, sessions, mode_filter)]
    /\ UNCHANGED <<sessions, keystrokes, keystroke_features,
                   next_session_id, next_keystroke_id, call_args>>

\* ------------------------------------------------- pattern statistics
\* Durations are whole milliseconds. A median of whole numbers may end in
\* .5 and a MAD in .25 or .75, so medians, MADs and thresholds are held in
\* quarters of a millisecond.

\* float('inf'): a value no threshold takes
Infinity == -1

RECURSIVE InsertSorted(_, _)
InsertSorted(sorted, x) ==
    IF sorted = <<>> THEN <<x>>
    ELSE IF x < Head(sorted) THEN <<x>> \o sorted
    ELSE <<Head(sorted)>> \o InsertSorted(Tail(sorted), x)

\* sorted(values)
RECURSIVE Sorted(_)
Sorted(values) ==
    IF values = <<>> THEN <<>>
    ELSE InsertSorted(Sorted(SubSeq(values, 1, Len(values) - 1)),
                      values[Len(values)])

\* twice statistics.median(values): the middle value, or the mean of the
\* two middle values, of the sorted list
Median2(values) ==
    LET s == Sorted(values)
        n == Len(s)
    IN  IF n % 2 = 1 THEN 2 * s[(n + 1) \div 2]
        ELSE s[n \div 2] + s[(n \div 2) + 1]

\* min(times) and max(times)
MinOf(values) == Sorted(values)[1]

MaxOf(values) == Sorted(values)[Len(values)]

\* round(numerator / denominator, d) in units of 1 / scale (scale = 10^d);
\* a tie goes to the even neighbour
RoundTo(numerator, denominator, scale) ==
    LET scaled == scale * numerator
        floor == scaled \div denominator
        rest == 2 * (scaled % denominator)
    IN  IF rest < denominator THEN floor
        ELSE IF rest > denominator THEN floor + 1
        ELSE IF floor % 2 = 0 THEN floor ELSE floor + 1

\* compute_mad, in quarters of a millisecond
compute_mad(values) ==
    IF values = <<>> THEN 0
    ELSE LET med2 == Median2(values)
             deviations2 == [i \in DOMAIN values |->
                                Abs(2 * values[i] - med2)]
         IN  Median2(deviations2)

\* the filter without the branch for a MAD of 0 and with the thresholds
\* themselves excluded
filter_outliers_mad_strict(times) ==
    IF Len(times) < 3
    THEN [filtered |-> times, excluded |-> <<>>,
          median |-> IF times # <<>> THEN 2 * Median2(times) ELSE 0,
          mad |-> 0, threshold_low |-> 0, threshold_high |-> Infinity]
    ELSE LET med == 2 * Median2(times)
             mad == compute_mad(times)
             threshold_low == med - 3 * mad
             threshold_high == med + 3 * mad
         IN  [filtered |-> SelectSeq(times, LAMBDA t :
                    threshold_low < 4 * t /\ 4 * t < threshold_high),
              excluded |-> SelectSeq(times, LAMBDA t :
                    4 * t <= threshold_low \/ 4 * t >= threshold_high),
              median |-> med, mad |-> mad,
              threshold_low |-> threshold_low,
              threshold_high |-> threshold_high]

\* filter_outliers_mad with the default threshold of 3.0; median, mad and
\* the two thresholds in quarters of a millisecond
filter_outliers_mad(times) ==
    IF Len(times) < 3
    THEN [filtered |-> times, excluded |-> <<>>,
          median |-> IF times # <<>> THEN 2 * Median2(times) ELSE 0,
          mad |-> 0, threshold_low |-> 0, threshold_high |-> Infinity]
    ELSE LET med == 2 * Median2(times)
             mad == compute_mad(times)
             threshold_low == med - 3 * mad
             threshold_high == med + 3 * mad
         IN  IF mad = 0
             THEN [filtered |-> times, excluded |-> <<>>, median |-> med,
                   mad |-> 0, threshold_low |-> med, threshold_high |-> med]
             ELSE [filtered |-> SelectSeq(times, LAMBDA t :
                        threshold_low <= 4 * t /\ 4 * t <= threshold_high),
                   excluded |-> SelectSeq(times, LAMBDA t :
                        4 * t < threshold_low \/ 4 * t > threshold_high),
                   median |-> med, mad |-> mad,
                   threshold_low |-> threshold_low,
                   threshold_high |-> threshold_high]

\* the filtering step with the excluded samples left out of the answer
FilterForStatsNoExcluded(times) ==
    IF Len(times) > 3
    THEN [filter_outliers_mad(times) EXCEPT !.excluded = <<>>]
    ELSE [filtered |-> times, excluded |-> <<>>,
          median |-> IF times # <<>> THEN 2 * Median2(times) ELSE 0,
          mad |-> 0, threshold_low |-> 0, threshold_high |-> Infinity]

\* the filtering step of _process_stats and _process_detailed: the MAD
\* filter for more than 3 samples, everything kept otherwise
FilterForStats(times) ==
    IF Len(times) > 3 THEN filter_outliers_mad(times)
    ELSE [filtered |-> times, excluded |-> <<>>,
          median |-> IF times # <<>> THEN 2 * Median2(times) ELSE 0,
          mad |-> 0, threshold_low |-> 0, threshold_high |-> Infinity]

\* the entry _process_stats appends for a pattern (averages, minimum,
\* maximum, median and MAD in hundredths of a millisecond); filtered and
\* excluded are the two lists the counts are taken of
StatsEntry(pattern, data) ==
    LET times == data.times
        f == FilterForStats(times)
        filtered_avg ==
            IF f.filtered # <<>>
            THEN RoundTo(SumSeq(f.filtered), Len(f.filtered), 100)
            ELSE RoundTo(SumSeq(times), Len(times), 100)
    IN  [pattern |-> pattern, count |-> data.count,
         avg_time |-> filtered_avg,
         raw_avg_time |-> RoundTo(data.total_time, data.count, 100),
         min_time |-> 100 * MinOf(times), max_time |-> 100 * MaxOf(times),
         median_time |-> RoundTo(f.median, 4, 100),
         mad |-> RoundTo(f.mad, 4, 100),
         filtered_count |-> Len(f.filtered),
         excluded_count |-> Len(f.excluded),
         filtered |-> f.filtered, excluded |-> f.excluded]

\* sorted(results, key=lambda x: x['avg_time']): a stable insertion sort
RECURSIVE InsertByAvg(_, _)
InsertByAvg(sorted, entry) ==
    IF sorted = <<>> THEN <<entry>>
    ELSE IF entry.avg_time < Head(sorted).avg_time THEN <<entry>> \o sorted
    ELSE <<Head(sorted)>> \o InsertByAvg(Tail(sorted), entry)

RECURSIVE SortByAvg(_)
SortByAvg(results) ==
    IF results = <<>> THEN <<>>
    ELSE InsertByAvg(SortByAvg(SubSeq(results, 1, Len(results) - 1)),
                     results[Len(results)])

\* PatternService._process_stats; stats_dict is the list of the patterns
\* of the dictionary with their data, in insertion order
RECURSIVE ProcessStatsLoop(_, _, _)
ProcessStatsLoop(stats_dict, min_count, i) ==
    IF i > Len(stats_dict) THEN <<>>
    ELSE (IF stats_dict[i].data.count >= min_count
          THEN <<StatsEntry(stats_dict[i].pattern, stats_dict[i].data)>>
          ELSE <<>>) \o ProcessStatsLoop(stats_dict, min_count, i + 1)

process_stats(stats_dict, min_count) ==
    SortByAvg(ProcessStatsLoop(stats_dict, min_count, 1))

\* the default num_bins of _create_histogram_bins
DEFAULT_NUM_BINS == 8

\* the bin_count of _create_distribution
DISTRIBUTION_BIN_COUNT == 10

\* how many of the samples lie in a bin whose edges are start / parts and
\* end / parts; the last bin includes its right edge
BinCount(sorted_times, start, end, parts, last) ==
    Len(SelectSeq(sorted_times, LAMBDA t :
        /\ start <= parts * t
        /\ IF last THEN parts * t <= end ELSE parts * t < end))

\* the label of a bin: its two edges rounded to the given number of decimals
BinLabel(start, end, parts, decimals) ==
    LET scale == IF decimals = 0 THEN 1 ELSE IF decimals = 1 THEN 10 ELSE 100
    IN  [from |-> RoundTo(start, parts, scale),
         to |-> RoundTo(end, parts, scale), decimals |-> decimals]

\* bin i (from 0) of _create_histogram_bins; bin edges are held in units of
\* 1 / num_bins of a millisecond, start and end are rounded to tenths
HistogramBin(sorted_times, thresh_low, thresh_high, num_bins, i) ==
    LET min_t == sorted_times[1]
        range_t == sorted_times[Len(sorted_times)] - min_t
        \* num_bins * bin_size
        bin_size == IF range_t > 0 THEN range_t ELSE num_bins
        bin_start == num_bins * min_t + i * bin_size
        bin_end == num_bins * min_t + (i + 1) * bin_size
    IN  [label |-> BinLabel(bin_start, bin_end, num_bins,
                            IF bin_size >= num_bins THEN 0 ELSE 1),
         count |-> BinCount(sorted_times, bin_start, bin_end, num_bins,
                            i = num_bins - 1),
         in_range |-> IF thresh_high # Infinity
                      THEN /\ num_bins * thresh_low <= 2 * (bin_start + bin_end)
                           /\ 2 * (bin_start + bin_end) <= num_bins * thresh_high
                      ELSE TRUE,
         start |-> RoundTo(bin_start, num_bins, 10),
         end |-> RoundTo(bin_end, num_bins, 10)]

\* PatternService._create_histogram_bins with the default num_bins; the
\* thresholds come in quarters of a millisecond
create_histogram_bins(sorted_times, thresh_low, thresh_high) ==
    IF sorted_times = <<>> THEN <<>>
    ELSE IF Len(sorted_times) = 1
    THEN <<[label |-> [from |-> sorted_times[1], to |-> sorted_times[1],
                       decimals |-> 0],
            count |-> 1, in_range |-> TRUE]>>
    ELSE LET range_t == sorted_times[Len(sorted_times)] - sorted_times[1]
             num_bins == IF range_t < 10
                         THEN Min(DEFAULT_NUM_BINS,
                                  IF range_t > 2 THEN range_t ELSE 2)
                         ELSE DEFAULT_NUM_BINS
         IN  [b \in 1..num_bins |->
                 HistogramBin(sorted_times, thresh_low, thresh_high,
                              num_bins, b - 1)]

\* the entry _process_detailed appends for a pattern (averages, median, MAD,
\* minimum, maximum, thresholds and raw times in tenths of a millisecond);
\* filtered and excluded are the two lists the counts are taken of
DetailedEntry(pattern, data) ==
    LET times == data.times
        f == FilterForStats(times)
    IN  [pattern |-> pattern, count |-> Len(times),
         avg_time |-> IF f.filtered # <<>>
                      THEN RoundTo(SumSeq(f.filtered), Len(f.filtered), 10)
                      ELSE 0,
         raw_avg_time |-> RoundTo(SumSeq(times), Len(times), 10),
         median_time |-> RoundTo(f.median, 4, 10),
         mad |-> RoundTo(f.mad, 4, 10),
         min_time |-> 10 * MinOf(times), max_time |-> 10 * MaxOf(times),
         threshold_low |-> IF f.threshold_low > 0
                           THEN Some(RoundTo(f.threshold_low, 4, 10))
                           ELSE None,
         threshold_high |-> IF f.threshold_high # Infinity
                            THEN Some(RoundTo(f.threshold_high, 4, 10))
                            ELSE None,
         filtered_count |-> Len(f.filtered),
         excluded_count |-> Len(f.excluded),
         distribution |-> create_histogram_bins(
                Sorted(times), f.threshold_low, f.threshold_high),
         raw_times |-> [i \in DOMAIN times |-> 10 * Sorted(times)[i]],
         filtered |-> f.filtered, excluded |-> f.excluded]

\* PatternService._process_detailed
RECURSIVE ProcessDetailedLoop(_, _)
ProcessDetailedLoop(stats_dict, i) ==
    IF i > Len(stats_dict) THEN <<>>
    ELSE (IF stats_dict[i].data.times # <<>>
          THEN <<DetailedEntry(stats_dict[i].pattern, stats_dict[i].data)>>
          ELSE <<>>) \o ProcessDetailedLoop(stats_dict, i + 1)

process_detailed(stats_dict) == SortByAvg(ProcessDetailedLoop(stats_dict, 1))

\* the bin of _create_distribution a sample is counted in (from 0)
DistributionBinIdx(time_val, min_time, max_time) ==
    Min((DISTRIBUTION_BIN_COUNT * (time_val - min_time))
            \div (max_time - min_time),
        DISTRIBUTION_BIN_COUNT - 1)

\* KeystrokeRepository._create_distribution; bin edges are held in units of
\* 1 / bin_count of a millisecond
create_distribution(times) ==
    IF times = <<>> THEN None
    ELSE LET min_time == MinOf(times)
             max_time == MaxOf(times)
             bin_size == max_time - min_time
         IN  IF max_time = min_time
             THEN Some([labels |-> <<[from |-> 10 * min_time,
                                      to |-> 10 * min_time, decimals |-> 1]>>,
                        values |-> <<Len(times)>>])
             ELSE Some(
                [labels |-> [b \in 1..DISTRIBUTION_BIN_COUNT |->
                    BinLabel(DISTRIBUTION_BIN_COUNT * min_time
                                + (b - 1) * bin_size,
                             DISTRIBUTION_BIN_COUNT * min_time + b * bin_size,
                             DISTRIBUTION_BIN_COUNT,
                             IF bin_size < DISTRIBUTION_BIN_COUNT
                             THEN 1 ELSE 0)],
                 values |-> [b \in 1..DISTRIBUTION_BIN_COUNT |->
                    Len(SelectSeq(times, LAMBDA t :
                        DistributionBinIdx(t, min_time, max_time) = b - 1))]])

\* ------------------------------------------------ the store specification
Init ==
    /\ sessions = <<>>
    /\ keystrokes = <<>>
    /\ keystroke_features = <<>>
    /\ next_session_id = 1
    /\ next_keystroke_id = 1
    /\ response = NoResponse
    /\ call_args = <<>>

\* the lengths a new session may have before the keystroke ids run out
FreeRows(max_rows) == 0..(max_rows + 1 - next_keystroke_id)

SubmitSession ==
    /\ next_session_id <= MaxSessions
    /\ \E mode \in StoreModes : \E n \in FreeRows(MaxRows) :
        \E payload \in Payloads(n, StoreTimes) : save_session(mode, payload)

UpdateFingers ==
    \E session_id \in 1..MaxSessions : \E annotations \in AnnotationLists :
        update_fingers(session_id, annotations)

ComputeFeatures == \E session_id \in 1..MaxSessions : compute_features(session_id)

DeleteKeystroke == \E keystroke_id \in 1..MaxRows : delete_keystroke(keystroke_id)

DeleteKeystrokeDb ==
    \E keystroke_id \in 1..MaxRows : delete_keystroke_db(keystroke_id)

Next ==
    \/ SubmitSession
    \/ UpdateFingers
    \/ ComputeFeatures
    \/ DeleteKeystroke
    \/ DeleteKeystrokeDb

Spec == Init /\ [][Next]_vars

\* ------------------------------------- the Pattern Analyzer specification
\* timestamps of the analysed logs: 0 and two later instants, in any order
PatternTimes == {0, 100, 250}

Modes == {"top200", "trigraph_test"}

\* no filter, or the mode of the single-trigraph collection sessions
ModeFilters == {Null, "trigraph_test"}

SubmitPatternSession ==
    /\ next_session_id <= MaxSessions
    /\ \E mode \in Modes : \E n \in FreeRows(MaxPatternRows) :
        \E payload \in Payloads(n, PatternTimes) : save_session(mode, payload)

AnalyzePatterns == \E mode_filter \in ModeFilters : analyze_patterns(mode_filter)

GetAllPatternsDetailed ==
    \E mode_filter \in ModeFilters : get_all_patterns_detailed(mode_filter)

NextPatterns ==
    \/ SubmitPatternSession
    \/ AnalyzePatterns
    \/ GetAllPatternsDetailed

SpecPatterns == Init /\ [][NextPatterns]_vars

\* ------------------------------------ the Coverage Tracker specification
\* what the clients of the coverage sessions type: a word, or a text with
\* a space (a thumb key) and a digit (a key the layout does not know)
CoverageTexts == {<<"t", "h", "e">>, <<" ", "h", "1">>}

TextKey(text, i) == text[((i - 1) % Len(text)) + 1]

CoveragePace == 100

\* session payloads of n keystrokes of a text typed at a steady pace, one
\* key every CoveragePace milliseconds; every prev_key is either null or
\* the key typed before
SteadyPayloads(text, n) ==
    {[i \in 1..n |->
        [key |-> TextKey(text, i), timestamp |-> CoveragePace * i,
         prev_key |-> IF brk[i] THEN Null ELSE TextKey(text, i - 1)]] :
     brk \in [1..n -> BOOLEAN]}

\* annotations of the keystrokes of the coverage sessions
CoverageAnnotationLists ==
    UNION {[1..n ->
              {[keystroke_id |-> k, finger |-> v[1], hand |-> v[2]] :
               k \in 1..MaxCoverageRows, v \in AnnotationValues}] :
           n \in 0..MaxAnnotations}

SubmitCoverageSession ==
    /\ next_session_id <= MaxSessions
    /\ \E mode \in StoreModes : \E n \in FreeRows(MaxCoverageRows) :
        \E text \in CoverageTexts :
            \E payload \in SteadyPayloads(text, n) :
                save_session(mode, payload)

AnnotateCoverageSession ==
    \E session_id \in 1..MaxSessions :
        \E annotations \in CoverageAnnotationLists :
            update_fingers(session_id, annotations)

GetCoverage == \E mode_filter \in ModeFilters : get_coverage(mode_filter)

NextCoverage ==
    \/ SubmitCoverageSession
    \/ AnnotateCoverageSession
    \/ GetCoverage

SpecCoverage == Init /\ [][NextCoverage]_vars

\* ----------------------------- the coverage collection specification
\* the trigraph_test client: every session is one trigraph typed at a
\* steady pace, the first keystroke without prev_key
GrowthTexts == {<<"t", "t", "t">>, <<"t", "t", "h">>}

GrowthPayload(text) ==
    [i \in 1..Len(text) |->
        [key |-> text[i], timestamp |-> CoveragePace * i,
         prev_key |-> IF i = 1 THEN Null ELSE text[i - 1]]]

SubmitTrigraphSession ==
    /\ next_session_id <= MaxGrowthSessions
    /\ \E mode \in Modes : \E text \in GrowthTexts :
        save_session(mode, GrowthPayload(text))

NextGrowth ==
    \/ SubmitTrigraphSession
    \/ GetCoverage

SpecGrowth == Init /\ [][NextGrowth]_vars

\* ------------------------------------- the duration filter specification
\* timestamps that put 0, 100, 4900 and 5000 ms, and negative times,
\* between two keystrokes
DurationTimes == {100, 200, 5100}

SubmitDurationSession ==
    /\ next_session_id <= MaxSessions
    /\ \E mode \in StoreModes : \E n \in FreeRows(MaxDurationRows) :
        \E payload \in Payloads(n, DurationTimes) : save_session(mode, payload)

NextDurations ==
    \/ SubmitDurationSession
    \/ AnalyzePatterns
    \/ GetAllPatternsDetailed
    \/ GetCoverage

SpecDurations == Init /\ [][NextDurations]_vars

\* ------------------------------- the annotation vocabulary specification
\* FingerAnnotation.finger and .hand are any strings: a finger and a hand
\* of the vocabulary, and a finger and a hand outside it
VocabularyAnnotationValues == {<<"left_thumb", "left">>, <<"thumb", "both">>}

VocabularyAnnotationLists ==
    UNION {[1..n ->
              {[keystroke_id |-> k, finger |-> v[1], hand |-> v[2]] :
               k \in 1..MaxVocabularyRows,
               v \in VocabularyAnnotationValues}] :
           n \in 0..MaxAnnotations}

SubmitVocabularySession ==
    /\ next_session_id <= MaxSessions
    /\ \E mode \in StoreModes : \E n \in FreeRows(MaxVocabularyRows) :
        \E payload \in SteadyPayloads(TypedText, n) :
            save_session(mode, payload)

AnnotateVocabularySession ==
    \E session_id \in 1..MaxSessions :
        \E annotations \in VocabularyAnnotationLists :
            update_fingers(session_id, annotations)

NextVocabulary ==
    \/ SubmitVocabularySession
    \/ AnnotateVocabularySession

SpecVocabulary == Init /\ [][NextVocabulary]_vars

\* --------------------------------- the pattern statistics specification
\* the durations of one pattern: a close group, a near-duplicate and a stray
StatTimes == {100, 103, 150, 400}

\* the entry of the pattern in the dictionaries the analysis loop fills
StatsDict(times) ==
    <<[pattern |-> "th",
       data |-> [count |-> Len(times), total_time |-> SumSeq(times),
                 times |-> times]]>>

InitStats ==
    /\ sessions = <<>>
    /\ keystrokes = <<>>
    /\ keystroke_features = <<>>
    /\ next_session_id = 1
    /\ next_keystroke_id = 1
    /\ response = NoResponse
    /\ \E n \in 0..MaxSamples : call_args \in [1..n -> StatTimes]

FilterOutliersMad ==
    /\ response' = [NoResponse EXCEPT
          !.endpoint = "filter_outliers_mad",
          !.status = "ok",
          !.stats = <<filter_outliers_mad(call_args)>>]
    /\ UNCHANGED <<sessions, keystrokes, keystroke_features,
                   next_session_id, next_keystroke_id, call_args>>

ProcessStats ==
    /\ \E min_count \in {MIN_PATTERN_SAMPLES, MIN_PATTERN_SAMPLES_TRIGRAPH_TEST} :
        response' = [NoResponse EXCEPT
          !.endpoint = "PatternService._process_stats",
          !.status = "ok",
          !.stats = process_stats(StatsDict(call_args), min_count)]
    /\ UNCHANGED <<sessions, keystrokes, keystroke_features,
                   next_session_id, next_keystroke_id, call_args>>

ProcessDetailed ==
    /\ response' = [NoResponse EXCEPT
          !.endpoint = "PatternService._process_detailed",
          !.status = "ok",
          !.stats = process_detailed(StatsDict(call_args))]
    /\ UNCHANGED <<sessions, keystrokes, keystroke_features,
                   next_session_id, next_keystroke_id, call_args>>

CreateDistribution ==
    /\ response' = [NoResponse EXCEPT
          !.endpoint = "KeystrokeRepository._create_distribution",
          !.status = "ok",
          !.stats = create_distribution(call_args)]
    /\ UNCHANGED <<sessions, keystrokes, keystroke_features,
                   next_session_id, next_keystroke_id, call_args>>

NextStats ==
    \/ FilterOutliersMad
    \/ ProcessStats
    \/ ProcessDetailed
    \/ CreateDistribution

SpecStats == InitStats /\ [][NextStats]_vars

\* ------------------------------ the default assignment specification
\* one row of the UPDATE loop of set_default_fingers: a keystroke without a
\* finger takes the layout's finger and hand of its key, unless the layout
\* does not know the key
SetDefaultRow(row) ==
    IF (row.finger = Null \/ row.finger = "") /\ get_finger(row.key) # "unknown"
    THEN [row EXCEPT !.finger = get_finger(row.key), !.hand = get_hand(row.key)]
    ELSE row

\* set_default_fingers.py
set_default_fingers ==
    /\ keystrokes' = [i \in DOMAIN keystrokes |-> SetDefaultRow(keystrokes[i])]
    /\ response' = [NoResponse EXCEPT
          !.endpoint = "set_default_fingers", !.status = "ok",
          !.count = Cardinality({i \in DOMAIN keystrokes :
                /\ keystrokes[i].finger = Null \/ keystrokes[i].finger = ""
                /\ get_finger(keystrokes[i].key) # "unknown"})]
    /\ UNCHANGED <<sessions, keystroke_features, next_session_id,
                   next_keystroke_id, call_args>>

\* does migrate_finger_assignments update the row: its key is not an
\* overwritable letter, the layout knows the key, and the finger or the
\* hand on record differs from the layout's
MigrateUpdates(row) ==
    /\ Lower(row.key) \notin OVERWRITABLE_LETTERS
    /\ get_finger(row.key) # "unknown"
    /\ ~(row.finger = get_finger(row.key) /\ row.hand = get_hand(row.key))

\* migrate_finger_assignments.py
migrate_finger_assignments ==
    /\ keystrokes' = [i \in DOMAIN keystrokes |->
          IF MigrateUpdates(keystrokes[i])
          THEN [keystrokes[i] EXCEPT !.finger = get_finger(keystrokes[i].key),
                                     !.hand = get_hand(keystrokes[i].key)]
          ELSE keystrokes[i]]
    /\ response' = [NoResponse EXCEPT
          !.endpoint = "migrate_finger_assignments", !.status = "ok",
          !.count = Cardinality({i \in DOMAIN keystrokes :
                                    MigrateUpdates(keystrokes[i])})]
    /\ UNCHANGED <<sessions, keystroke_features, next_session_id,
                   next_keystroke_id, call_args>>

\* the row KeystrokeRepository.create_batch inserts for a keystroke dict
CreateBatchRow(session_id, ks, id) ==
    [id |-> id, session_id |-> session_id, key |-> ks.key,
     timestamp |-> ks.timestamp, prev_key |-> ks.prev_key,
     finger |-> IF Lower(ks.key) \notin OVERWRITABLE_LETTERS
                THEN get_finger(ks.key) ELSE ks.finger,
     hand |-> IF Lower(ks.key) \notin OVERWRITABLE_LETTERS
              THEN get_hand(ks.key) ELSE ks.hand]

\* KeystrokeRepository.create_batch; the foreign key of the keystrokes
\* table refuses rows of a session that does not exist
create_batch(session_id, ks_list) ==
    IF SessionExists(session_id) \/ ks_list = <<>>
    THEN /\ keystrokes' = keystrokes \o
                [i \in DOMAIN ks_list |->
                    CreateBatchRow(session_id, ks_list[i],
                                   next_keystroke_id + i - 1)]
         /\ next_keystroke_id' = next_keystroke_id + Len(ks_list)
         /\ response' = [NoResponse EXCEPT
                !.endpoint = "KeystrokeRepository.create_batch",
                !.status = "ok", !.session_id = session_id,
                !.count = Len(ks_list)]
         /\ UNCHANGED <<sessions, keystroke_features, next_session_id,
                        call_args>>
    ELSE /\ response' = [NoResponse EXCEPT
                !.endpoint = "KeystrokeRepository.create_batch",
                !.status = "error", !.session_id = session_id]
         /\ UNCHANGED <<sessions, keystrokes, keystroke_features,
                        next_session_id, next_keystroke_id, call_args>>

\* what the sessions of this specification type: an overwritable letter in
\* both cases, a letter with a fixed finger, and a key outside the layout
DefaultTexts == {<<"e", "t">>, <<"E", "1">>}

\* the finger and hand a client gives for a keystroke: none, the empty
\* string, or a manual annotation that differs from the layout's
ClientFingers == {<<Null, Null>>, <<"", "left">>, <<"left_index", "left">>}

\* keystroke dicts of create_batch: the payload of a session with the
\* finger and hand of the client
BatchPayloads(text, n) ==
    {[i \in 1..n |->
        [key |-> TextKey(text, i), timestamp |-> CoveragePace * i,
         prev_key |-> IF i = 1 THEN Null ELSE TextKey(text, i - 1),
         finger |-> fh[i][1], hand |-> fh[i][2]]] :
     fh \in [1..n -> ClientFingers]}

DefaultAnnotationLists ==
    UNION {[1..n ->
              {[keystroke_id |-> k, finger |-> v[1], hand |-> v[2]] :
               k \in 1..MaxDefaultRows,
               v \in {<<"left_index", "left">>}}] :
           n \in 0..MaxAnnotations}

SubmitDefaultSession ==
    /\ next_session_id <= MaxSessions
    /\ \E mode \in StoreModes : \E n \in FreeRows(MaxDefaultRows) :
        \E text \in DefaultTexts :
            \E payload \in SteadyPayloads(text, n) :
                save_session(mode, payload)

AnnotateDefaultSession ==
    \E session_id \in 1..MaxSessions :
        \E annotations \in DefaultAnnotationLists :
            update_fingers(session_id, annotations)

CreateBatch ==
    \E session_id \in 1..MaxSessions : \E n \in FreeRows(MaxDefaultRows) :
        \E text \in DefaultTexts : \E ks_list \in BatchPayloads(text, n) :
            create_batch(session_id, ks_list)

SetDefaultFingers == set_default_fingers

MigrateFingerAssignments == migrate_finger_assignments

NextDefaults ==
    \/ SubmitDefaultSession
    \/ AnnotateDefaultSession
    \/ CreateBatch
    \/ SetDefaultFingers
    \/ MigrateFingerAssignments

SpecDefaults == Init /\ [][NextDefaults]_vars

\* ------------------------------------ the Deviation Tracker specification
\* the rows the query of get_deviations selects, in the order of the table:
\* keystrokes of an overwritable letter with a finger on record
DeviationRowsAll(table) ==
    SelectSeq(table, LAMBDA row : Lower(row.key) \in OVERWRITABLE_LETTERS)

DeviationRows(table) ==
    SelectSeq(table, LAMBDA row :
        /\ Lower(row.key) \in OVERWRITABLE_LETTERS
        /\ row.finger # Null
        /\ row.finger # "")

\* ORDER BY k.id DESC (the table is kept in ascending id order)
Reverse(s) == [i \in DOMAIN s |-> s[Len(s) + 1 - i]]

\* actual_finger != expected_finger
Deviated(row) == row.finger # get_finger(Lower(row.key))

\* the deviation dict of a row; save_session stores no current_word, so
\* the dict carries no word
DeviationOf(row) ==
    [keystroke_id |-> row.id, letter |-> Lower(row.key),
     expected_finger |-> get_finger(Lower(row.key)),
     actual_finger |-> row.finger, session_id |-> row.session_id]

\* by_letter[letter] after the loop over the rows
ByLetter(rows, letter) ==
    [total |-> Len(SelectSeq(rows, LAMBDA row : Lower(row.key) = letter)),
     deviated |-> Len(SelectSeq(rows, LAMBDA row :
                        Lower(row.key) = letter /\ Deviated(row)))]

\* the summary entry of a letter; deviation_rate is a percentage rounded to
\* one decimal, held in tenths of a percent
SummaryEntry(rows, letter) ==
    LET data == ByLetter(rows, letter)
    IN  [letter |-> letter, total |-> data.total,
         deviated |-> data.deviated,
         deviation_rate |-> RoundTo(100 * data.deviated, data.total, 10),
         expected_finger |-> get_finger(letter)]

\* summary.sort(key=deviation_rate, reverse=True): a stable sort, entries
\* of one rate stay in the order they were appended
RECURSIVE InsertByRate(_, _)
InsertByRate(sorted, entry) ==
    IF sorted = <<>> THEN <<entry>>
    ELSE IF entry.deviation_rate > Head(sorted).deviation_rate
    THEN <<entry>> \o sorted
    ELSE <<Head(sorted)>> \o InsertByRate(Tail(sorted), entry)

RECURSIVE SortByRate(_)
SortByRate(summary) ==
    IF summary = <<>> THEN <<>>
    ELSE InsertByRate(SortByRate(SubSeq(summary, 1, Len(summary) - 1)),
                      summary[Len(summary)])

\* the orders in which a dict built from the set OVERWRITABLE_LETTERS may
\* hand out those of its letters that have a row (the iteration order of a
\* set of strings is not fixed)
LetterOrders(rows) ==
    LET used == {Lower(rows[i].key) : i \in DOMAIN rows}
    IN  {order \in [1..Cardinality(used) -> used] :
            \A i, j \in DOMAIN order : i # j => order[i] # order[j]}

\* DeviationService.get_deviations with the default limit, for one
\* iteration order of by_letter
DeviationsOf(table, order) ==
    LET rows == Reverse(DeviationRows(table))
        deviations == SelectSeq(rows, Deviated)
    IN  [summary |-> SortByRate([i \in DOMAIN order |->
                                    SummaryEntry(rows, order[i])]),
         total_deviations |-> Len(deviations),
         words_with_deviations |-> <<>>,
         recent_deviations |->
            [i \in 1..Min(Len(deviations), 50) |-> DeviationOf(deviations[i])],
         overwritable_letters |-> OVERWRITABLE_LETTERS]

\* GET /deviations
get_deviations ==
    /\ \E order \in LetterOrders(DeviationRows(keystrokes)) :
        response' = [NoResponse EXCEPT
            !.endpoint = "deviations", !.status = "ok",
            !.stats = <<DeviationsOf(keystrokes, order)>>]
    /\ UNCHANGED <<sessions, keystrokes, keystroke_features,
                   next_session_id, next_keystroke_id, call_args>>

\* what the sessions of this specification type: overwritable letters in
\* both cases and a letter with a fixed finger
DeviationTexts == {<<"e", "b", "E", "e">>, <<"k", "e", "t", "b">>}

\* the annotations: the default finger of e, and the default finger of b
\* and k
DeviationAnnotationValues ==
    {<<"left_middle", "left">>, <<"right_index", "right">>}

\* the payload of a session of n keystrokes of a text, typed at a steady
\* pace without a break
DeviationPayload(text, n) ==
    [i \in 1..n |->
        [key |-> TextKey(text, i), timestamp |-> CoveragePace * i,
         prev_key |-> IF i = 1 THEN Null ELSE TextKey(text, i - 1)]]

DeviationAnnotationLists ==
    UNION {[1..n ->
              {[keystroke_id |-> k, finger |-> v[1], hand |-> v[2]] :
               k \in 1..MaxDeviationRows,
               v \in DeviationAnnotationValues}] :
           n \in 0..MaxAnnotations}

SubmitDeviationSession ==
    /\ next_session_id <= MaxSessions
    /\ \E mode \in StoreModes : \E n \in FreeRows(MaxDeviationRows) :
        \E text \in DeviationTexts :
            save_session(mode, DeviationPayload(text, n))

AnnotateDeviationSession ==
    \E session_id \in 1..MaxSessions :
        \E annotations \in DeviationAnnotationLists :
            update_fingers(session_id, annotations)

GetDeviations == get_deviations

NextDeviations ==
    \/ SubmitDeviationSession
    \/ AnnotateDeviationSession
    \/ GetDeviations

SpecDeviations == Init /\ [][NextDeviations]_vars

\* ------------------------------------------ the lifecycle specification
\* the features of a batch that are not None
NotNone(batch) == SelectSeq(batch, LAMBDA feat : feat # None)

\* the dicts of the features that are not None
FeatureDicts(batch) == [i \in DOMAIN NotNone(batch) |-> NotNone(batch)[i][1]]

\* a direct call of FeatureRepository.save_batch (the response keeps the
\* batch next to the returned count); the foreign key of
\* keystroke_features (PRAGMA foreign_keys = ON) refuses a row of a
\* keystroke that does not exist, and the exception rolls the batch back
save_features(batch) ==
    /\ IF \A i \in DOMAIN FeatureDicts(batch) :
            KeystrokeRow(keystrokes, FeatureDicts(batch)[i].keystroke_id) # {}
       THEN /\ keystroke_features' =
                    save_batch(keystroke_features, FeatureDicts(batch))
            /\ response' = [NoResponse EXCEPT
                    !.endpoint = "FeatureRepository.save_batch",
                    !.status = "ok", !.features = batch,
                    !.count = Len(FeatureDicts(batch))]
       ELSE /\ keystroke_features' = keystroke_features
            /\ response' = [NoResponse EXCEPT
                    !.endpoint = "FeatureRepository.save_batch",
                    !.status = "error", !.features = batch]
    /\ UNCHANGED <<sessions, keystrokes, next_session_id, next_keystroke_id,
                   call_args>>

\* ON DELETE CASCADE of keystrokes.session_id
DeleteSessionKeystrokes(table, session_id) ==
    SelectSeq(table, LAMBDA row : row.session_id # session_id)

\* a deletion of a session that leaves the feature rows of its keystrokes
DeleteSessionFeaturesNone(table, ks_table, session_id) == table

\* ON DELETE CASCADE of keystroke_features.keystroke_id for the keystrokes
\* of the session; delete_session_db deletes the same rows itself
DeleteSessionFeatures(table, ks_table, session_id) ==
    SelectSeq(table, LAMBDA feat :
        \A i \in DOMAIN ks_table :
            ks_table[i].id = feat.keystroke_id =>
                ks_table[i].session_id # session_id)

\* DELETE /session/{session_id} -> SessionRepository.delete
delete_session(session_id) ==
    /\ IF ~SessionExists(session_id)
       THEN /\ response' = [NoResponse EXCEPT
                    !.endpoint = "delete_session", !.status = "404",
                    !.session_id = session_id]
            /\ UNCHANGED <<sessions, keystrokes, keystroke_features>>
       ELSE /\ sessions' = SelectSeq(sessions,
                                     LAMBDA s : s.id # session_id)
            /\ keystrokes' = DeleteSessionKeystrokes(keystrokes, session_id)
            /\ keystroke_features' =
                    DeleteSessionFeatures(keystroke_features, keystrokes,
                                          session_id)
            /\ response' = [NoResponse EXCEPT
                    !.endpoint = "delete_session", !.status = "deleted",
                    !.session_id = session_id]
    /\ UNCHANGED <<next_session_id, next_keystroke_id, call_args>>

\* database.delete_session_db (the flat module kept for compatibility)
delete_session_db(session_id) ==
    /\ IF ~SessionExists(session_id)
       THEN /\ response' = [NoResponse EXCEPT
                    !.endpoint = "delete_session", !.status = "404",
                    !.session_id = session_id]
            /\ UNCHANGED <<sessions, keystrokes, keystroke_features>>
       ELSE /\ keystroke_features' =
                    DeleteSessionFeatures(keystroke_features, keystrokes,
                                          session_id)
            /\ keystrokes' = DeleteSessionKeystrokes(keystrokes, session_id)
            /\ sessions' = SelectSeq(sessions,
                                     LAMBDA s : s.id # session_id)
            /\ response' = [NoResponse EXCEPT
                    !.endpoint = "delete_session", !.status = "deleted",
                    !.session_id = session_id]
    /\ UNCHANGED <<next_session_id, next_keystroke_id, call_args>>

\* the feature values of the batches: two transitions the layout tells
\* apart, taking turns along a batch
LifecycleFeature(i) ==
    IF i % 2 = 1
    THEN extract_transition_features("t", "h", Null, Null, Null, Null)
    ELSE extract_transition_features("h", "e", Null, Null, Null, Null)

\* the batches of a direct call: features keyed by a keystroke id (one
\* more id than the store can hold), with None in between
LifecycleBatches ==
    UNION {{[i \in 1..n |->
                IF ids[i] = 0 THEN None
                ELSE Some([keystroke_id |-> ids[i]] @@ LifecycleFeature(i))] :
            ids \in [1..n -> 0..(MaxLifecycleRows + 1)]} :
           n \in 0..MaxBatch}

SubmitLifecycleSession ==
    /\ next_session_id <= MaxSessions
    /\ \E mode \in StoreModes : \E n \in FreeRows(MaxLifecycleRows) :
        save_session(mode, DeviationPayload(TypedText, n))

SaveFeatures == \E batch \in LifecycleBatches : save_features(batch)

ComputeLifecycleFeatures ==
    \E session_id \in 1..MaxSessions : compute_features(session_id)

DeleteLifecycleKeystroke ==
    \E keystroke_id \in 1..MaxLifecycleRows :
        \/ delete_keystroke(keystroke_id)
        \/ delete_keystroke_db(keystroke_id)

DeleteSession == \E session_id \in 1..MaxSessions : delete_session(session_id)

DeleteSessionDb ==
    \E session_id \in 1..MaxSessions : delete_session_db(session_id)

NextLifecycle ==
    \/ SubmitLifecycleSession
    \/ SaveFeatures
    \/ ComputeLifecycleFeatures
    \/ DeleteLifecycleKeystroke
    \/ DeleteSession
    \/ DeleteSessionDb

SpecLifecycle == Init /\ [][NextLifecycle]_vars

\* ------------------------------------- the gap suggestion specification
\* list(FINGER_ASSIGNMENTS.keys()): the keys in the order of the table
LAYOUT_KEYS ==
    <<"q", "a", "z", "w", "s", "x", "e", "d", "c", "r", "t", "f", "g", "v",
      "b", "y", "u", "h", "j", "n", "m", "i", "k", "o", "l", "p", ".", ",",
      ";", "/", " ">>

\* CoverageService.get_keys_for_finger
get_keys_for_finger(finger) ==
    SelectSeq(LAYOUT_KEYS, LAMBDA key : FINGER_ASSIGNMENTS[key] = finger)

\* random.choice(keys), for the draws that pick the first or the last key
RandomChoices(keys) == {keys[1], keys[Len(keys)]}

\* the draws of one round of the loop: k1 of the keys of from_finger, k2 of
\* the keys of to_finger, and for k3 and k0 the draw of the first key of
\* all_keys
RoundDraws(from_keys, to_keys) ==
    {[k1 |-> k1, k2 |-> k2, k3 |-> LAYOUT_KEYS[1], k0 |-> LAYOUT_KEYS[1]] :
        k1 \in RandomChoices(from_keys), k2 \in RandomChoices(to_keys)}

\* suggestions after the loop, for the draws of its rounds: trigraph1 and
\* trigraph2 of each round (a 3-character string is the tuple of its keys)
RECURSIVE SuggestionsLoop(_, _)
SuggestionsLoop(draws, i) ==
    IF i > Len(draws) THEN <<>>
    ELSE <<<<draws[i].k1, draws[i].k2, draws[i].k3>>,
           <<draws[i].k0, draws[i].k1, draws[i].k2>>>>
         \o SuggestionsLoop(draws, i + 1)

\* the elements of a list that are in a set, in the order of their first
\* appearance
RECURSIVE FirstAppearances(_, _)
FirstAppearances(list, kept) ==
    IF list = <<>> THEN <<>>
    ELSE IF Head(list) \in kept
    THEN <<Head(list)>> \o FirstAppearances(Tail(list), kept \ {Head(list)})
    ELSE FirstAppearances(Tail(list), kept)

\* CoverageService.suggest_trigraphs_for_gap: the list returned when the
\* loop draws `draws` and the shuffle brings the strings of `kept` to the
\* front
suggest_trigraphs_for_gap(from_finger, to_finger, count, draws, kept) ==
    IF get_keys_for_finger(from_finger) = <<>>
            \/ get_keys_for_finger(to_finger) = <<>>
    THEN <<>>
    ELSE FirstAppearances(SuggestionsLoop(draws, 1), kept)

\* the sets of strings unique[:count] may consist of
KeptSets(draws, count) ==
    LET suggestions == SuggestionsLoop(draws, 1)
        unique == {suggestions[i] : i \in DOMAIN suggestions}
    IN  {kept \in SUBSET unique :
            Cardinality(kept) = Min(count, Cardinality(unique))}

InitSuggest ==
    /\ sessions = <<>>
    /\ keystrokes = <<>>
    /\ keystroke_features = <<>>
    /\ next_session_id = 1
    /\ next_keystroke_id = 1
    /\ response = NoResponse
    /\ \E i \in DOMAIN FINGERS : \E j \in DOMAIN FINGERS :
        \E count \in 1..MaxCount :
            call_args = <<FINGERS[i], FINGERS[j], count>>

SuggestTrigraphsForGap ==
    /\ LET from_keys == get_keys_for_finger(call_args[1])
           to_keys == get_keys_for_finger(call_args[2])
           count == call_args[3]
       IN  IF from_keys = <<>> \/ to_keys = <<>>
           THEN response' = [NoResponse EXCEPT
                    !.endpoint = "CoverageService.suggest_trigraphs_for_gap",
                    !.status = "ok",
                    !.stats = suggest_trigraphs_for_gap(
                        call_args[1], call_args[2], count, <<>>, {})]
           ELSE \E draws \in [1..(2 * count) ->
                                RoundDraws(from_keys, to_keys)] :
                \E kept \in KeptSets(draws, count) :
                    response' = [NoResponse EXCEPT
                        !.endpoint =
                            "CoverageService.suggest_trigraphs_for_gap",
                        !.status = "ok",
                        !.stats = suggest_trigraphs_for_gap(
                            call_args[1], call_args[2], count, draws, kept)]
    /\ UNCHANGED <<sessions, keystrokes, keystroke_features,
                   next_session_id, next_keystroke_id, call_args>>

NextSuggest == SuggestTrigraphsForGap

SpecSuggest == InitSuggest /\ [][NextSuggest]_vars

\* ------------------------------------- the pattern details specification
\* the row the subquery SELECT MIN(id) ... WHERE session_id = k1.session_id
\* AND id > k1.id joins to k1: the next keystroke of the session by id
NextById(table, k1) ==
    {k2 \in {table[i] : i \in DOMAIN table} :
        /\ k2.session_id = k1.session_id
        /\ k2.id > k1.id
        /\ \A j \in DOMAIN table :
            (table[j].session_id = k1.session_id /\ table[j].id > k1.id)
                => k2.id <= table[j].id}

\* ORDER BY k1.timestamp over rows that start at the keystrokes of the
\* table: a stable insertion sort (rows of one timestamp stay in id order;
\* the answers do not depend on their order)
RECURSIVE InsertByTimestamp(_, _)
InsertByTimestamp(sorted, row) ==
    IF sorted = <<>> THEN <<row>>
    ELSE IF row[1].timestamp < Head(sorted)[1].timestamp
    THEN <<row>> \o sorted
    ELSE <<Head(sorted)>> \o InsertByTimestamp(Tail(sorted), row)

RECURSIVE OrderByTimestamp(_)
OrderByTimestamp(rows) ==
    IF rows = <<>> THEN <<>>
    ELSE InsertByTimestamp(OrderByTimestamp(SubSeq(rows, 1, Len(rows) - 1)),
                           rows[Len(rows)])

\* the rows of the query of get_digraph_details: every keystroke with the
\* first key, joined to the next keystroke of its session when that has the
\* second key
RECURSIVE DigraphOccurrences(_, _, _)
DigraphOccurrences(table, pattern, i) ==
    IF i > Len(table) THEN <<>>
    ELSE (IF table[i].key = pattern[1]
          THEN LET next == {k2 \in NextById(table, table[i]) :
                                k2.key = pattern[2]}
               IN  IF next = {} THEN <<>>
                   ELSE <<<<table[i], CHOOSE k2 \in next : TRUE>>>>
          ELSE <<>>) \o DigraphOccurrences(table, pattern, i + 1)

\* the rows of the query of get_trigraph_details
RECURSIVE TrigraphOccurrences(_, _, _)
TrigraphOccurrences(table, pattern, i) ==
    IF i > Len(table) THEN <<>>
    ELSE (IF table[i].key = pattern[1]
          THEN LET seconds == {k2 \in NextById(table, table[i]) :
                                    k2.key = pattern[2]}
                   thirds == UNION {{k3 \in NextById(table, k2) :
                                        k3.key = pattern[3]} : k2 \in seconds}
               IN  IF thirds = {} THEN <<>>
                   ELSE <<<<table[i], CHOOSE k2 \in seconds : TRUE,
                            CHOOSE k3 \in thirds : TRUE>>>>
          ELSE <<>>) \o TrigraphOccurrences(table, pattern, i + 1)

\* the loop over the occurrences: the time from the first to the last
\* keystroke of each, when it is inside (0, 5000)
RECURSIVE OccurrenceTimes(_, _)
OccurrenceTimes(occurrences, i) ==
    IF i > Len(occurrences) THEN <<>>
    ELSE LET row == occurrences[i]
             duration == row[Len(row)].timestamp - row[1].timestamp
         IN  (IF 0 < duration /\ duration < 5000 THEN <<duration>> ELSE <<>>)
             \o OccurrenceTimes(occurrences, i + 1)

\* the ids of the keystrokes of each occurrence
OccurrenceIds(occurrences) ==
    [i \in DOMAIN occurrences |->
        [j \in DOMAIN occurrences[i] |-> occurrences[i][j].id]]

\* KeystrokeRepository.get_digraph_details (the words are read off the
\* raw_text of the sessions, which this store does not keep); joined is
\* the list of the keystroke ids of the occurrences
DigraphDetailsOf(table, pattern) ==
    LET occurrences == OrderByTimestamp(DigraphOccurrences(table, pattern, 1))
        times == OccurrenceTimes(occurrences, 1)
    IN  IF occurrences = <<>>
        THEN [pattern |-> pattern, distribution |-> None, occurrences |-> 0,
              joined |-> <<>>, times |-> <<>>]
        ELSE [pattern |-> pattern,
              distribution |-> create_distribution(times),
              occurrences |-> Len(occurrences),
              joined |-> OccurrenceIds(occurrences), times |-> times]

\* KeystrokeRepository.get_trigraph_details; avg_time and the thresholds
\* in tenths of a millisecond, raw_times in milliseconds
TrigraphDetailsOf(table, pattern) ==
    LET occurrences == OrderByTimestamp(TrigraphOccurrences(table, pattern, 1))
        times == OccurrenceTimes(occurrences, 1)
        med == IF times = <<>> THEN 0 ELSE 2 * Median2(times)
        mad == compute_mad(times)
        has_thresholds == Len(times) >= 3 /\ mad > 0
    IN  IF occurrences = <<>>
        THEN [pattern |-> pattern, distribution |-> None, raw_times |-> <<>>,
              avg_time |-> 0, threshold_low |-> None, threshold_high |-> None,
              occurrences |-> 0, joined |-> <<>>, times |-> <<>>]
        ELSE [pattern |-> pattern,
              distribution |-> create_distribution(times),
              raw_times |-> Sorted(times),
              avg_time |-> IF times = <<>> THEN 0
                           ELSE RoundTo(SumSeq(times), Len(times), 10),
              threshold_low |->
                    IF has_thresholds /\ med - 3 * mad # 0
                    THEN Some(RoundTo(med - 3 * mad, 4, 10)) ELSE None,
              threshold_high |->
                    IF has_thresholds /\ med + 3 * mad # 0
                    THEN Some(RoundTo(med + 3 * mad, 4, 10)) ELSE None,
              occurrences |-> Len(occurrences),
              joined |-> OccurrenceIds(occurrences), times |-> times]

\* GET /digraph/{pattern}
get_digraph_details(pattern) ==
    /\ response' = [NoResponse EXCEPT
            !.endpoint = "digraph_details", !.status = "ok",
            !.stats = <<DigraphDetailsOf(keystrokes, pattern)>>]
    /\ UNCHANGED <<sessions, keystrokes, keystroke_features,
                   next_session_id, next_keystroke_id, call_args>>

\* GET /trigraph/{pattern}
get_trigraph_details(pattern) ==
    /\ response' = [NoResponse EXCEPT
            !.endpoint = "trigraph_details", !.status = "ok",
            !.stats = <<TrigraphDetailsOf(keystrokes, pattern)>>]
    /\ UNCHANGED <<sessions, keystrokes, keystroke_features,
                   next_session_id, next_keystroke_id, call_args>>

\* the patterns asked for: pairs and the triple of the typed text
DigraphPatterns == {<<"t", "h">>, <<"h", "e">>, <<"t", "e">>}

TrigraphPatterns == {<<"t", "h", "e">>}

SubmitDetailsSession ==
    /\ next_session_id <= MaxSessions
    /\ \E mode \in StoreModes : \E n \in FreeRows(MaxDetailRows) :
        \E payload \in Payloads(n, StoreTimes) : save_session(mode, payload)

DeleteDetailsKeystroke ==
    \E keystroke_id \in 1..MaxDetailRows : delete_keystroke(keystroke_id)

GetDigraphDetails ==
    \E pattern \in DigraphPatterns : get_digraph_details(pattern)

GetTrigraphDetails ==
    \E pattern \in TrigraphPatterns : get_trigraph_details(pattern)

NextDetails ==
    \/ SubmitDetailsSession
    \/ DeleteDetailsKeystroke
    \/ GetDigraphDetails
    \/ GetTrigraphDetails

SpecDetails == Init /\ [][NextDetails]_vars

\* ------------------------------------------ the session crop specification
\* KeystrokeRepository.delete on a pair <<keystrokes, keystroke_features>>:
\* the pairs it may leave (one for every row the next-keystroke query may
\* return); the pair itself when the keystroke is not found
RepoDeleteResults(tables, keystroke_id) ==
    IF KeystrokeRow(tables[1], keystroke_id) = {} THEN {tables}
    ELSE UNION {
            LET next_ids == NextKeystrokeIds(tables[1], deleted_ks)
            IN  {<<DeleteRow(tables[1], keystroke_id, next_id),
                   DeleteFeatures(tables[2], keystroke_id)>> :
                 next_id \in (IF next_ids = {} THEN {0} ELSE next_ids)}
            : deleted_ks \in KeystrokeRow(tables[1], keystroke_id)}

\* for ks_id in ids_to_delete: repo.delete(ks_id)
RECURSIVE CropLoop(_, _, _)
CropLoop(tables_set, ids_to_delete, i) ==
    IF i > Len(ids_to_delete) THEN tables_set
    ELSE CropLoop(UNION {RepoDeleteResults(tables, ids_to_delete[i]) :
                         tables \in tables_set},
                  ids_to_delete, i + 1)

\* the ids of the keystrokes before crop_start and after crop_end
\* (enumerate counts from 0)
IdsToDelete(session_keystrokes, crop_start, crop_end) ==
    LET outside == SelectSeq([i \in DOMAIN session_keystrokes |->
                                [index |-> i - 1,
                                 id |-> session_keystrokes[i].id]],
                             LAMBDA e : e.index < crop_start
                                        \/ e.index > crop_end)
    IN  [i \in DOMAIN outside |-> outside[i].id]

\* POST /session/{session_id}/crop
crop_session(session_id, crop_start, crop_end) ==
    LET session_keystrokes == SessionKeystrokes(keystrokes, session_id)
        ids_to_delete == IdsToDelete(session_keystrokes, crop_start, crop_end)
    IN  /\ IF session_keystrokes = <<>>
           THEN /\ response' = [NoResponse EXCEPT
                       !.endpoint = "crop_session", !.status = "404",
                       !.session_id = session_id,
                       !.stats = <<crop_start, crop_end>>]
                /\ UNCHANGED <<keystrokes, keystroke_features>>
           ELSE IF crop_start < 0 \/ crop_end < crop_start
                   \/ crop_end >= Len(session_keystrokes)
           THEN /\ response' = [NoResponse EXCEPT
                       !.endpoint = "crop_session", !.status = "400",
                       !.session_id = session_id,
                       !.stats = <<crop_start, crop_end>>]
                /\ UNCHANGED <<keystrokes, keystroke_features>>
           ELSE \E tables \in CropLoop({<<keystrokes, keystroke_features>>},
                                       ids_to_delete, 1) :
                /\ keystrokes' = tables[1]
                /\ keystroke_features' = tables[2]
                /\ response' = [NoResponse EXCEPT
                       !.endpoint = "crop_session", !.status = "cropped",
                       !.session_id = session_id,
                       !.count = Len(ids_to_delete),
                       !.stats = <<crop_start, crop_end,
                                   crop_end - crop_start + 1>>]
        /\ UNCHANGED <<sessions, next_session_id, next_keystroke_id,
                       call_args>>

SubmitCropSession ==
    /\ next_session_id <= MaxSessions
    /\ \E mode \in StoreModes : \E n \in FreeRows(MaxCropRows) :
        \E payload \in Payloads(n, StoreTimes) : save_session(mode, payload)

CropSession ==
    \E session_id \in 1..MaxSessions :
        \E crop_start \in (-1)..MaxCropRows : \E crop_end \in (-1)..MaxCropRows :
            crop_session(session_id, crop_start, crop_end)

NextCrop ==
    \/ SubmitCropSession
    \/ CropSession

SpecCrop == Init /\ [][NextCrop]_vars

\* ------------------------------------------- the gap closing specification
\* A collector works through the 64 cells of the matrix in the order of
\* FINGERS: for each cell it types a two-key trigraph_test session for the
\* pair, annotates both keystrokes with the fingers of the pair, reads the
\* coverage and deletes the session again.

\* the number of cells: "len(FINGERS) * len(FINGERS)"
TotalPairs == Len(FINGERS) * Len(FINGERS)

\* the n-th cell in the order of the double loop over FINGERS
GapOf(n) ==
    <<FINGERS[(((n - 1) \div Len(FINGERS)) % Len(FINGERS)) + 1],
      FINGERS[((n - 1) % Len(FINGERS)) + 1]>>

\* the keys a log for a finger may use: the keys the layout gives the
\* finger, and any key of the layout when it gives the finger none
GapKeys(finger) ==
    LET keys == get_keys_for_finger(finger)
    IN  IF keys = <<>> THEN {LAYOUT_KEYS[i] : i \in DOMAIN LAYOUT_KEYS}
        ELSE {keys[i] : i \in DOMAIN keys}

\* the hand named by a finger of FINGERS
FingerHand(finger) ==
    IF finger \in {"left_pinky", "left_ring", "left_middle", "left_index"}
    THEN "left" ELSE "right"

\* a session of two keystrokes typed at a steady pace
GapPayload(k1, k2) ==
    <<[key |-> k1, timestamp |-> CoveragePace, prev_key |-> Null],
      [key |-> k2, timestamp |-> 2 * CoveragePace, prev_key |-> k1]>>

SubmitGapSession ==
    /\ sessions = <<>>
    /\ next_session_id <= TotalPairs
    /\ \E k1 \in GapKeys(GapOf(next_session_id)[1]) :
        \E k2 \in GapKeys(GapOf(next_session_id)[2]) :
            save_session("trigraph_test", GapPayload(k1, k2))

AnnotateGapSession ==
    /\ response.endpoint = "submit_session"
    /\ LET gap == GapOf(response.session_id)
       IN  update_fingers(response.session_id,
            <<[keystroke_id |-> next_keystroke_id - 2,
               finger |-> gap[1], hand |-> FingerHand(gap[1])],
              [keystroke_id |-> next_keystroke_id - 1,
               finger |-> gap[2], hand |-> FingerHand(gap[2])]>>)

GetGapCoverage ==
    /\ response.endpoint = "update_fingers"
    /\ get_coverage("trigraph_test")

DeleteGapSession ==
    /\ response.endpoint = "coverage"
    /\ sessions # <<>>
    /\ delete_session(sessions[1].id)

NextGaps ==
    \/ SubmitGapSession
    \/ AnnotateGapSession
    \/ GetGapCoverage
    \/ DeleteGapSession

SpecGaps == Init /\ [][NextGaps]_vars

\* ----------------------------------- the Feature Extractor specification
\* keystroke dicts as get_with_keystrokes hands them to the extractor
\* (id and timestamp are filled in by position)
FeatureKeystrokes ==
    {[id |-> 0, session_id |-> 1, key |-> key, timestamp |-> 0,
      prev_key |-> prev_key, finger |-> finger, hand |-> hand] :
     key \in {"t", "h", "E"}, prev_key \in {Null, "t"},
     finger \in {Null, "left_index", "right_index"},
     hand \in {Null, "left", "right"}}

FeatureInputs(n) ==
    {[i \in 1..n |-> [f[i] EXCEPT !.id = i, !.timestamp = 100 * i]] :
        f \in [1..n -> FeatureKeystrokes]}

InitFeatures ==
    /\ sessions = <<>>
    /\ keystrokes = <<>>
    /\ keystroke_features = <<>>
    /\ next_session_id = 1
    /\ next_keystroke_id = 1
    /\ response = NoResponse
    /\ \E n \in 0..MaxFeatLen : call_args \in FeatureInputs(n)

ComputeSessionFeatures ==
    /\ response' = [NoResponse EXCEPT
          !.endpoint = "FeatureService.compute_session_features",
          !.status = "ok",
          !.features = compute_session_features(call_args)]
    /\ UNCHANGED <<sessions, keystrokes, keystroke_features,
                   next_session_id, next_keystroke_id, call_args>>

LegacyComputeSessionFeatures ==
    /\ response' = [NoResponse EXCEPT
          !.endpoint = "features.compute_session_features",
          !.status = "ok",
          !.features = legacy_compute_session_features(call_args)]
    /\ UNCHANGED <<sessions, keystrokes, keystroke_features,
                   next_session_id, next_keystroke_id, call_args>>

CheckAnnotationsComplete ==
    /\ response' = [NoResponse EXCEPT
          !.endpoint = "FeatureService.check_annotations_complete",
          !.status = "ok",
          !.missing_indices = check_annotations_complete(call_args)]
    /\ UNCHANGED <<sessions, keystrokes, keystroke_features,
                   next_session_id, next_keystroke_id, call_args>>

\* a direct call of extract_transition_features on the first two keystrokes
\* of the drawn list: their keys, and their finger and hand where given
ExtractTransitionFeatures ==
    /\ Len(call_args) >= 2
    /\ response' = [NoResponse EXCEPT
          !.endpoint = "FeatureService.extract_transition_features",
          !.status = "ok",
          !.features = <<Some(extract_transition_features(
                call_args[1].key, call_args[2].key,
                call_args[1].finger, call_args[2].finger,
                call_args[1].hand, call_args[2].hand))>>]
    /\ UNCHANGED <<sessions, keystrokes, keystroke_features,
                   next_session_id, next_keystroke_id, call_args>>

NextFeatures ==
    \/ ComputeSessionFeatures
    \/ LegacyComputeSessionFeatures
    \/ CheckAnnotationsComplete
    \/ ExtractTransitionFeatures

SpecFeatures == InitFeatures /\ [][NextFeatures]_vars

\* ================================================================ claims
\* C1 (as claimed): in analyze_patterns and get_all_patterns_detailed no
\* trigraph sample is formed from three keystrokes of which the second or
\* the third has a null prev_key.
C1_NoTrigraphAcrossBreakpoint ==
    response.endpoint \in {"patterns", "patterns_detailed"} =>
        \A n \in DOMAIN response.trigraphs :
            \A i \in DOMAIN keystrokes :
                keystrokes[i].id \in {response.trigraphs[n].ks[2],
                                      response.trigraphs[n].ks[3]}
                    => keystrokes[i].prev_key # Null

\* C2 (as claimed): whenever a keystroke is deleted, the surviving keystroke
\* of the same session with the next larger id has a null prev_key
\* afterwards, whatever the timestamps are.
C2_DeleteNullsSuccessorById ==
    [][\A i \in DOMAIN keystrokes :
          (\A j \in DOMAIN keystrokes' :
                keystrokes'[j].id # keystrokes[i].id) =>
          \A j \in DOMAIN keystrokes' :
             (/\ keystrokes'[j].session_id = keystrokes[i].session_id
              /\ keystrokes'[j].id > keystrokes[i].id
              /\ \A k \in DOMAIN keystrokes' :
                    ~(/\ keystrokes'[k].session_id = keystrokes[i].session_id
                      /\ keystrokes'[k].id > keystrokes[i].id
                      /\ keystrokes'[k].id < keystrokes'[j].id))
             => keystrokes'[j].prev_key = Null]_vars

\* C3 (as claimed): for the single session t (null, 0), h (t, 100),
\* e (h, 250) analyze_patterns yields exactly the digraph samples th/100 and
\* he/150 and exactly the trigraph sample the/250.
C3_Scenario1 ==
    (/\ Len(sessions) = 1
     /\ [i \in DOMAIN keystrokes |->
            <<keystrokes[i].key, keystrokes[i].prev_key,
              keystrokes[i].timestamp>>]
          = << <<"t", Null, 0>>, <<"h", "t", 100>>, <<"e", "h", 250>> >>
     /\ response.endpoint = "patterns"
     /\ response.mode_filter \in {Null, sessions[1].mode})
    => /\ [n \in DOMAIN response.digraphs |->
              <<response.digraphs[n].pattern, response.digraphs[n].duration>>]
            = << <<<<"t", "h">>, 100>>, <<<<"h", "e">>, 150>> >>
       /\ [n \in DOMAIN response.trigraphs |->
              <<response.trigraphs[n].pattern,
                response.trigraphs[n].duration>>]
            = << <<<<"t", "h", "e">>, 250>> >>

\* C4: every digraph, transition and trigraph sample of the Pattern Analyzer
\* is measured between keystrokes of one single session, and its duration is
\* the timestamp of its last keystroke minus the timestamp of its first.
C4_NoCrossSessionBleed ==
    response.endpoint \in {"patterns", "patterns_detailed"} =>
        \A samples \in {response.digraphs, response.transitions,
                        response.trigraphs} :
            \A n \in DOMAIN samples :
                LET used == {i \in DOMAIN keystrokes :
                                \E m \in DOMAIN samples[n].ks :
                                    keystrokes[i].id = samples[n].ks[m]}
                    first == {i \in used :
                                keystrokes[i].id = samples[n].ks[1]}
                    last == {i \in used : keystrokes[i].id
                                = samples[n].ks[Len(samples[n].ks)]}
                IN  /\ Cardinality(used) = Len(samples[n].ks)
                    /\ \A i, j \in used :
                          keystrokes[i].session_id = keystrokes[j].session_id
                    /\ \A i \in first : \A j \in last :
                          samples[n].duration = keystrokes[j].timestamp
                                                - keystrokes[i].timestamp

\* C4 witness: an unfiltered analysis of a log with keystrokes of two
\* sessions that produced a digraph sample and a trigraph sample
C4_Witness ==
    /\ response.endpoint = "patterns"
    /\ response.mode_filter = Null
    /\ \E i, j \in DOMAIN keystrokes :
          keystrokes[i].session_id # keystrokes[j].session_id
    /\ response.digraphs # <<>>
    /\ response.trigraphs # <<>>

\* C5: a keystroke whose prev_key is null is never the destination of a
\* digraph sample or of a transition sample.
C5_NullPrevKeyNoDigraph ==
    response.endpoint \in {"patterns", "patterns_detailed"} =>
        \A samples \in {response.digraphs, response.transitions} :
            \A n \in DOMAIN samples : \A i \in DOMAIN keystrokes :
                keystrokes[i].id = samples[n].ks[2]
                    => keystrokes[i].prev_key # Null

\* C5 witness: an analysis of a log in which a keystroke with null prev_key
\* follows, within (0, 5000) ms, a keystroke of its session with a non-zero
\* timestamp, and which produced digraph samples
C5_Witness ==
    /\ response.endpoint \in {"patterns", "patterns_detailed"}
    /\ response.mode_filter = Null
    /\ response.digraphs # <<>>
    /\ \E i \in DOMAIN keystrokes : i > 1 /\
          /\ keystrokes[i].prev_key = Null
          /\ keystrokes[i - 1].session_id = keystrokes[i].session_id
          /\ keystrokes[i - 1].timestamp > 0
          /\ keystrokes[i].timestamp > keystrokes[i - 1].timestamp

\* C6: compute_session_features (both implementations) returns a list as
\* long as its argument, whose first element, if any, is None.
C6_FeatureAlignment ==
    response.endpoint \in {"FeatureService.compute_session_features",
                           "features.compute_session_features"} =>
        /\ Len(response.features) = Len(call_args)
        /\ call_args # <<>> => response.features[1] = None

\* C6 witness: a call on a list with a break inside (a None placeholder in
\* the middle of the result is what keeps the positions aligned)
C6_Witness ==
    /\ response.endpoint = "FeatureService.compute_session_features"
    /\ Len(call_args) >= 2
    /\ call_args[2].prev_key = Null

C8_SaveOnlyWhenComplete ==
    [][(/\ response'.endpoint \in {"update_fingers", "compute_features"}
        /\ response'.features_count > 0)
       => \A i \in DOMAIN keystrokes' :
             keystrokes'[i].session_id = response'.session_id =>
                /\ keystrokes'[i].finger # Null
                /\ keystrokes'[i].hand # Null]_vars

\* C9: a compute_features request for a session with a keystroke that lacks
\* a finger or a hand leaves the feature table unchanged and answers
\* 'incomplete' with exactly the ascending positions of those keystrokes.
C9_IncompleteRefused ==
    [][LET ks_list == SessionKeystrokes(keystrokes, response'.session_id)
           lacking == {i \in DOMAIN ks_list :
                          ks_list[i].finger = Null \/ ks_list[i].hand = Null}
           missing == response'.missing_indices
       IN  (response'.endpoint = "compute_features" /\ lacking # {}) =>
              /\ keystroke_features' = keystroke_features
              /\ response'.status = "incomplete"
              /\ {missing[n] : n \in DOMAIN missing}
                    = {i - 1 : i \in lacking}
              /\ \A n \in DOMAIN missing :
                    n > 1 => missing[n - 1] < missing[n]]_vars

\* C9 witness: a refused request for a session that already has feature
\* rows, with two keystrokes lacking annotation and one annotated
C9_Witness ==
    /\ response.endpoint = "compute_features"
    /\ response.status = "incomplete"
    /\ Len(response.missing_indices) = 2
    /\ Len(SessionKeystrokes(keystrokes, response.session_id)) = 3
    /\ \E n \in DOMAIN keystroke_features : \E i \in DOMAIN keystrokes :
          /\ keystrokes[i].id = keystroke_features[n].keystroke_id
          /\ keystrokes[i].session_id = response.session_id

\* C10 (as claimed): no feature row is keyed by a keystroke whose prev_key is
\* null or that is the first keystroke of its session.
C10_NoFeatureAcrossBreakpoint ==
    \A n \in DOMAIN keystroke_features : \A i \in DOMAIN keystrokes :
        keystrokes[i].id = keystroke_features[n].keystroke_id =>
            /\ keystrokes[i].prev_key # Null
            /\ \E j \in DOMAIN keystrokes :
                  /\ keystrokes[j].session_id = keystrokes[i].session_id
                  /\ keystrokes[j].id < keystrokes[i].id

\* C11 (as claimed): extract_transition_features called with finger_from
\* 'left_index' and finger_to 'right_index' and no hands returns same_hand
\* 0, same_finger 0 and is_inward 0, whatever the two keys are.
C11_Scenario2 ==
    (/\ response.endpoint = "FeatureService.extract_transition_features"
     /\ call_args[1].finger = "left_index"
     /\ call_args[2].finger = "right_index"
     /\ call_args[1].hand = Null /\ call_args[2].hand = Null) =>
        LET t == response.features[1][1]
        IN  t.same_hand = 0 /\ t.same_finger = 0 /\ t.is_inward = 0

\* the keystroke row with a given id
RowOfId(id) == keystrokes[CHOOSE i \in DOMAIN keystrokes : keystrokes[i].id = id]

\* C12 (as claimed): for every transition get_coverage counts, the
\* from-finger is the finger annotation when present and otherwise the
\* layout default of prev_key, the to-finger is the layout default of the
\* current key, and both are among the eight tracked fingers.
C12_FingersAsClaimed ==
    response.endpoint = "coverage" =>
        \A n \in DOMAIN response.coverage.samples :
            LET sample == response.coverage.samples[n]
                row == RowOfId(sample.ks[2])
            IN  /\ sample.pair[1] = (IF row.finger # Null THEN row.finger
                                     ELSE get_finger(row.prev_key))
                /\ sample.pair[2] = get_finger(row.key)
                /\ InFingers(sample.pair[1]) /\ InFingers(sample.pair[2])

\* C12 (amended): for every transition get_coverage counts, the from-finger
\* is the layout default of prev_key, the to-finger is the finger
\* annotation of the current keystroke when present and otherwise the
\* layout default of the current key, and both are among the eight tracked
\* fingers; each cell's count is the number of such transitions.
C12_FingersAsResolved ==
    response.endpoint = "coverage" =>
        /\ \A n \in DOMAIN response.coverage.samples :
            LET sample == response.coverage.samples[n]
                row == RowOfId(sample.ks[2])
            IN  /\ row.prev_key # Null
                /\ sample.pair[1] = get_finger(row.prev_key)
                /\ sample.pair[2] = (IF row.finger # Null THEN row.finger
                                     ELSE get_finger(row.key))
                /\ InFingers(sample.pair[1]) /\ InFingers(sample.pair[2])
        /\ \A i \in DOMAIN FINGERS : \A j \in DOMAIN FINGERS :
            response.coverage.matrix[i][j].count =
                Cardinality({n \in DOMAIN response.coverage.samples :
                    response.coverage.samples[n].pair
                        = <<FINGERS[i], FINGERS[j]>>})

\* C12 witness: a counted transition whose current keystroke is annotated
\* with a finger that is not the layout default of its key, next to a
\* keystroke that is not counted because its key is a thumb key
C12_Witness ==
    /\ response.endpoint = "coverage"
    /\ \E n \in DOMAIN response.coverage.samples :
        LET row == RowOfId(response.coverage.samples[n].ks[2])
        IN  row.finger # Null /\ row.finger # get_finger(row.key)
    /\ \E i \in DOMAIN keystrokes :
        /\ keystrokes[i].prev_key = " "
        /\ \A n \in DOMAIN response.coverage.samples :
            response.coverage.samples[n].ks[2] # keystrokes[i].id

\* C20 (as claimed): every keystroke's finger is null or one of the ten
\* finger names or 'unknown', and every keystroke's hand is null or one of
\* 'left', 'right', 'unknown'.
C20_ClosedVocabulary ==
    \A i \in DOMAIN keystrokes :
        /\ keystrokes[i].finger \in VALID_FINGERS \cup {Null}
        /\ keystrokes[i].hand \in VALID_HANDS \cup {Null}

\* the tier of a status in the order missing < low < adequate < good
Tier(status) ==
    CASE status = "missing" -> 0
      [] status = "low" -> 1
      [] status = "adequate" -> 2
      [] status = "good" -> 3

\* the number of counted transitions of a response for a pair of fingers
SamplesOfPair(coverage, from_finger, to_finger) ==
    Cardinality({n \in DOMAIN coverage.samples :
        coverage.samples[n].pair = <<from_finger, to_finger>>})

\* C13: get_coverage returns an 8x8 matrix over the eight non-thumb
\* fingers whose cell (i, j) counts the transitions from finger i to finger
\* j and has status 'missing' iff the count is 0, 'low' iff it is 1..4,
\* 'adequate' iff it is 5..7 and 'good' iff it is 8 or more.
C13_MatrixStatus ==
    response.endpoint = "coverage" =>
        LET matrix == response.coverage.matrix
        IN  /\ DOMAIN matrix = 1..8
            /\ \A i \in 1..8 :
                /\ DOMAIN matrix[i] = 1..8
                /\ \A j \in 1..8 :
                    LET cell == matrix[i][j]
                    IN  /\ cell.from = FINGERS[i] /\ cell.to = FINGERS[j]
                        /\ cell.count = SamplesOfPair(response.coverage,
                                            FINGERS[i], FINGERS[j])
                        /\ cell.status = "missing" <=> cell.count = 0
                        /\ cell.status = "low" <=>
                              (1 <= cell.count /\ cell.count <= 4)
                        /\ cell.status = "adequate" <=>
                              (5 <= cell.count /\ cell.count <= 7)
                        /\ cell.status = "good" <=> cell.count >= 8

\* C13 witness: a matrix with a cell of exactly 8 samples next to a low
\* cell and a missing cell
C13_Witness ==
    /\ response.endpoint = "coverage"
    /\ response.coverage.matrix[4][4].count = 8
    /\ response.coverage.matrix[4][5].status = "low"
    /\ response.coverage.matrix[5][4].status = "missing"

\* C14: the gap list holds exactly the cells whose count is below 5, each
\* once, with needed = 5 - count and priority 'high' iff the count is 0
\* (otherwise 'medium'); every high gap comes before every medium gap and
\* the medium gaps are in ascending order of count.
C14_GapList ==
    response.endpoint = "coverage" =>
        LET gaps == response.coverage.gaps
            matrix == response.coverage.matrix
        IN  /\ \A i \in 1..8 : \A j \in 1..8 :
                Cardinality({n \in DOMAIN gaps :
                    gaps[n].from = FINGERS[i] /\ gaps[n].to = FINGERS[j]})
                  = (IF matrix[i][j].count < 5 THEN 1 ELSE 0)
            /\ \A n \in DOMAIN gaps :
                /\ \E i \in 1..8 : \E j \in 1..8 :
                    /\ gaps[n].from = FINGERS[i] /\ gaps[n].to = FINGERS[j]
                    /\ gaps[n].current = matrix[i][j].count
                /\ gaps[n].needed = 5 - gaps[n].current
                /\ gaps[n].priority = "high" <=> gaps[n].current = 0
                /\ gaps[n].priority = "medium" <=> gaps[n].current # 0
            /\ \A a \in DOMAIN gaps : \A b \in DOMAIN gaps :
                a < b =>
                    /\ gaps[b].priority = "high" => gaps[a].priority = "high"
                    /\ (gaps[a].priority = "medium"
                            /\ gaps[b].priority = "medium") =>
                        gaps[a].current <= gaps[b].current

\* C14 witness: a gap list with two medium gaps of which the one with the
\* smaller count belongs to the later cell of the matrix, and high gaps
C14_Witness ==
    /\ response.endpoint = "coverage"
    /\ response.coverage.matrix[4][4].count = 3
    /\ response.coverage.matrix[4][5].count = 1
    /\ Len(response.coverage.gaps) = 64
    /\ response.coverage.gaps[64].from = "left_index"
    /\ response.coverage.gaps[64].to = "left_index"

\* C15: a submission that appends keystrokes to the log lowers no count of
\* any cell of the coverage matrix and moves no cell to a lower tier, with
\* or without a mode filter.
C15_CoverageMonotone ==
    [][(/\ Len(keystrokes') >= Len(keystrokes)
        /\ SubSeq(keystrokes', 1, Len(keystrokes)) = keystrokes) =>
        \A mode_filter \in ModeFilters :
            \A before \in {CoverageOf(keystrokes, sessions, mode_filter)} :
            \A after \in {CoverageOf(keystrokes', sessions', mode_filter)} :
                \A i \in 1..8 : \A j \in 1..8 :
                    /\ after.matrix[i][j].count >= before.matrix[i][j].count
                    /\ Tier(after.matrix[i][j].status)
                            >= Tier(before.matrix[i][j].status)]_vars

\* C15 witness: the cell of left_index to left_index has gone through
\* every tier and holds more samples than the target
C15_Witness ==
    /\ response.endpoint = "coverage"
    /\ response.coverage.matrix[4][4].count > 8
    /\ response.coverage.matrix[4][4].status = "good"

\* the samples a response reports: the digraph, transition and trigraph
\* samples of the pattern endpoints and the pair samples of the coverage
SamplesOfResponse ==
    {response.digraphs[n] : n \in DOMAIN response.digraphs}
        \cup {response.transitions[n] : n \in DOMAIN response.transitions}
        \cup {response.trigraphs[n] : n \in DOMAIN response.trigraphs}
        \cup (IF response.endpoint = "coverage"
              THEN {response.coverage.samples[n] :
                        n \in DOMAIN response.coverage.samples}
              ELSE {})

\* C16: every duration recorded for a digraph, a transition, a trigraph or
\* a coverage pair is the time elapsed between the keystrokes it was
\* measured between and lies strictly between 0 and 5000; an elapsed time
\* of 0 or less, or of 5000 or more, is recorded nowhere.
C16_DurationWindow ==
    \A sample \in SamplesOfResponse :
        LET first == RowOfId(sample.ks[1])
            last == RowOfId(sample.ks[Len(sample.ks)])
        IN  /\ sample.duration = last.timestamp - first.timestamp
            /\ 0 < sample.duration /\ sample.duration < 5000

\* C16 witness: an analysis of a session whose second keystroke comes
\* exactly 5000 ms after the first and whose third comes before the second
\* but 100 ms after the first: the trigraph is recorded, no digraph is
C16_Witness ==
    /\ response.endpoint = "patterns"
    /\ Len(keystrokes) >= 3
    /\ keystrokes[1].session_id = keystrokes[3].session_id
    /\ keystrokes[2].prev_key # Null /\ keystrokes[3].prev_key # Null
    /\ keystrokes[2].timestamp - keystrokes[1].timestamp = 5000
    /\ keystrokes[3].timestamp - keystrokes[2].timestamp < 0
    /\ response.digraphs = <<>>
    /\ \E n \in DOMAIN response.trigraphs : response.trigraphs[n].duration = 100

\* the drawn sample list is not empty and all its values are equal
AllEqualSamples ==
    /\ call_args # <<>>
    /\ \A i \in DOMAIN call_args : call_args[i] = call_args[1]

\* C17: for a non-empty sample list whose values are all equal,
\* filter_outliers_mad returns the full list as the filtered set, an empty
\* excluded set and a MAD of 0, and so do the statistics _process_stats and
\* _process_detailed build on it: the entry of the pattern is filtered to
\* the full list (filtered_count = the number of samples), excludes nothing
\* (excluded_count = 0) and reports a MAD of 0.
C17_AllEqualKeepsAll ==
    AllEqualSamples =>
        /\ response.endpoint = "filter_outliers_mad" =>
            /\ response.stats[1].filtered = call_args
            /\ response.stats[1].excluded = <<>>
            /\ response.stats[1].mad = 0
        /\ response.endpoint \in {"PatternService._process_stats",
                                  "PatternService._process_detailed"} =>
            /\ Len(response.stats) = 1
            /\ response.stats[1].filtered = call_args
            /\ response.stats[1].filtered_count = Len(call_args)
            /\ response.stats[1].excluded = <<>>
            /\ response.stats[1].excluded_count = 0
            /\ response.stats[1].mad = 0

\* C17 witness: filter_outliers_mad has answered for four or more equal
\* samples, the length at which _process_stats and _process_detailed call it
C17_Witness ==
    /\ AllEqualSamples
    /\ Len(call_args) >= 4
    /\ response.endpoint = "filter_outliers_mad"
    /\ response.stats[1].filtered = call_args
    /\ response.stats[1].threshold_low = 4 * call_args[1]

\* C18 (as claimed): for two or more samples of one duration both histogram
\* constructions (_create_histogram_bins behind _process_detailed, and
\* _create_distribution) return a single bin whose count is the number of
\* samples.
C18_SingleBinWhenAllEqual ==
    (AllEqualSamples /\ Len(call_args) >= 2) =>
        /\ response.endpoint = "PatternService._process_detailed" =>
            /\ Len(response.stats[1].distribution) = 1
            /\ response.stats[1].distribution[1].count = Len(call_args)
        /\ response.endpoint = "KeystrokeRepository._create_distribution" =>
            /\ Len(response.stats[1].values) = 1
            /\ response.stats[1].values[1] = Len(call_args)

\* C19 (as claimed): for samples that are not all equal the histogram has
\* 10 bins of equal width that span [min, max] of the unfiltered samples,
\* the bin counts sum to the number of samples, and the last bin counts the
\* samples equal to the maximum.
C19_TenBins ==
    (call_args # <<>> /\ ~AllEqualSamples) =>
        /\ response.endpoint = "PatternService._process_detailed" =>
            LET bins == response.stats[1].distribution
                counts == [b \in DOMAIN bins |-> bins[b].count]
            IN  /\ Len(bins) = 10
                /\ bins[1].start = 10 * MinOf(call_args)
                /\ bins[Len(bins)].end = 10 * MaxOf(call_args)
                /\ SumSeq(counts) = Len(call_args)
                /\ bins[Len(bins)].count >=
                     Len(SelectSeq(call_args,
                                   LAMBDA t : t = MaxOf(call_args)))
        /\ response.endpoint = "KeystrokeRepository._create_distribution" =>
            LET values == response.stats[1].values
                labels == response.stats[1].labels
            IN  /\ Len(values) = 10
                /\ Len(labels) = 10
                /\ SumSeq(values) = Len(call_args)
                /\ values[10] >=
                     Len(SelectSeq(call_args,
                                   LAMBDA t : t = MaxOf(call_args)))

\* C21 (as claimed): none of migrate_finger_assignments, set_default_fingers
\* and KeystrokeRepository.create_batch changes the finger or the hand of a
\* stored keystroke whose lowercased key is one of the overwritable letters
\* e, b, u, i, y, k.
C21_OverwritableUntouched ==
    [][response'.endpoint \in {"migrate_finger_assignments",
                               "set_default_fingers",
                               "KeystrokeRepository.create_batch"} =>
        \A i \in DOMAIN keystrokes :
            Lower(keystrokes[i].key) \in OVERWRITABLE_LETTERS =>
                /\ keystrokes'[i].finger = keystrokes[i].finger
                /\ keystrokes'[i].hand = keystrokes[i].hand]_vars

\* the annotated keystrokes of an overwritable letter, in either case
AnnotatedOf(letter) ==
    {i \in DOMAIN keystrokes :
        /\ Lower(keystrokes[i].key) = letter
        /\ keystrokes[i].finger \notin {Null, ""}}

\* those of them whose finger on record is not the layout's finger
DeviatedOf(letter) ==
    {i \in AnnotatedOf(letter) :
        keystrokes[i].finger # FINGER_ASSIGNMENTS[letter]}

\* C22: get_deviations lists exactly the overwritable letters that have an
\* annotated keystroke, each once; for each, total is the number of
\* annotated keystrokes of the letter (in either case), deviated the number
\* of those whose finger on record differs from the layout's default
\* finger, and the reported rate is deviated / total (as a percentage
\* rounded to a tenth); total_deviations is the sum of the deviated counts,
\* and the summary is in descending order of the reported rate.
C22_DeviationCounts ==
    response.endpoint = "deviations" =>
        LET result == response.stats[1]
            summary == result.summary
        IN  /\ {summary[i].letter : i \in DOMAIN summary} =
                    {letter \in OVERWRITABLE_LETTERS :
                        AnnotatedOf(letter) # {}}
            /\ \A i, j \in DOMAIN summary :
                    i # j => summary[i].letter # summary[j].letter
            /\ \A i \in DOMAIN summary :
                    /\ summary[i].total =
                            Cardinality(AnnotatedOf(summary[i].letter))
                    /\ summary[i].deviated =
                            Cardinality(DeviatedOf(summary[i].letter))
                    /\ summary[i].deviation_rate =
                            RoundTo(100 * summary[i].deviated,
                                    summary[i].total, 10)
            /\ result.total_deviations =
                    SumSeq([i \in DOMAIN summary |-> summary[i].deviated])
            /\ \A i \in DOMAIN summary : \A j \in DOMAIN summary :
                    i < j => summary[i].deviation_rate
                                >= summary[j].deviation_rate

\* C22 witness: a summary of two letters with different rates, one of them
\* with both a deviating and a conforming keystroke, next to an unannotated
\* keystroke of an overwritable letter
C22_Witness ==
    /\ response.endpoint = "deviations"
    /\ Len(response.stats[1].summary) = 2
    /\ response.stats[1].summary[1].deviation_rate = 1000
    /\ response.stats[1].summary[2].total = 2
    /\ response.stats[1].summary[2].deviated = 1
    /\ \E i \in DOMAIN keystrokes :
            /\ Lower(keystrokes[i].key) \in OVERWRITABLE_LETTERS
            /\ keystrokes[i].finger = Null

\* the rows of the feature table that belong to a keystroke id
FeatureRowsOf(table, keystroke_id) ==
    {i \in DOMAIN table : table[i].keystroke_id = keystroke_id}

\* C23: FeatureRepository.save_batch is an upsert. After a call that
\* returns, the table holds at most one row per keystroke id; the row of
\* an id of the batch holds the values of the last feature the batch has
\* for that id, the rows of all other ids are as they were (so a row always
\* holds the most recent save of its id); and the returned count is the
\* number of features in the batch.
C23_Upsert ==
    [][(response'.endpoint = "FeatureRepository.save_batch"
            /\ response'.status = "ok") =>
        LET feats == FeatureDicts(response'.features)
            ids == {feats[i].keystroke_id : i \in DOMAIN feats}
            Last(id) == feats[CHOOSE i \in DOMAIN feats :
                            /\ feats[i].keystroke_id = id
                            /\ \A j \in DOMAIN feats :
                                feats[j].keystroke_id = id => j <= i]
        IN  /\ response'.count = Len(feats)
            /\ \A id \in 1..(MaxLifecycleRows + 1) :
                /\ Cardinality(FeatureRowsOf(keystroke_features', id)) <= 1
                /\ id \in ids =>
                    \E i \in DOMAIN keystroke_features' :
                        keystroke_features'[i] = Last(id)
                /\ id \notin ids =>
                    {keystroke_features'[i] :
                        i \in FeatureRowsOf(keystroke_features', id)}
                    = {keystroke_features[i] :
                        i \in FeatureRowsOf(keystroke_features, id)}]_vars

\* C23 witness: a batch with two different features for one keystroke has
\* left a single row for it, with the values of the second, next to the
\* row of another keystroke
C23_Witness ==
    /\ response.endpoint = "FeatureRepository.save_batch"
    /\ response.status = "ok"
    /\ response.count = 2
    /\ Len(response.features) = 2
    /\ response.features[1] # response.features[2]
    /\ response.features[1] # None /\ response.features[2] # None
    /\ response.features[1][1].keystroke_id
            = response.features[2][1].keystroke_id
    /\ Len(keystroke_features) = 2
    /\ \E i \in DOMAIN keystroke_features :
            keystroke_features[i] = response.features[2][1]

\* every feature row has its keystroke and every keystroke its session
ReferencesHold(sess_table, ks_table, feat_table) ==
    /\ \A i \in DOMAIN feat_table :
            KeystrokeRow(ks_table, feat_table[i].keystroke_id) # {}
    /\ \A i \in DOMAIN ks_table :
            \E j \in DOMAIN sess_table :
                sess_table[j].id = ks_table[i].session_id

\* the feature rows of the keystrokes of a session
SessionFeatureRows(feat_table, ks_table, session_id) ==
    SelectSeq(feat_table, LAMBDA feat :
        \E i \in DOMAIN ks_table :
            /\ ks_table[i].id = feat.keystroke_id
            /\ ks_table[i].session_id = session_id)

\* C25: while sessions are created, features saved, and keystrokes and
\* sessions deleted, every feature row references an existing keystroke
\* and every keystroke an existing session. A deleted keystroke takes its
\* feature row with it and no other feature row; a deleted session takes
\* all its keystrokes and their feature rows with it, and the sessions,
\* keystrokes and feature rows of every other session stay as they were.
C25_ReferentialIntegrity ==
    [][/\ ReferencesHold(sessions, keystrokes, keystroke_features)
       /\ ReferencesHold(sessions', keystrokes', keystroke_features')
       /\ (response'.endpoint = "delete_keystroke"
                /\ response'.status = "deleted") =>
            /\ KeystrokeRow(keystrokes', response'.count) = {}
            /\ keystroke_features' =
                SelectSeq(keystroke_features, LAMBDA feat :
                            feat.keystroke_id # response'.count)
       /\ (response'.endpoint = "delete_session"
                /\ response'.status = "deleted") =>
            /\ \A i \in DOMAIN sessions' :
                    sessions'[i].id # response'.session_id
            /\ \A i \in DOMAIN keystrokes' :
                    keystrokes'[i].session_id # response'.session_id
            /\ \A other \in (1..MaxSessions) \ {response'.session_id} :
                /\ SessionExists(other) =>
                        \E i \in DOMAIN sessions' : sessions'[i].id = other
                /\ SessionKeystrokes(keystrokes', other)
                        = SessionKeystrokes(keystrokes, other)
                /\ SessionFeatureRows(keystroke_features', keystrokes', other)
                        = SessionFeatureRows(keystroke_features, keystrokes,
                                             other)]_vars

\* C25 witness: a session has been deleted while a feature row is stored;
\* the keystroke and the feature row of the other session are still there
C25_Witness ==
    /\ response.endpoint = "delete_session"
    /\ response.status = "deleted"
    /\ Len(sessions) = 1
    /\ next_session_id = 3
    /\ Len(keystrokes) = 1
    /\ next_keystroke_id = 3
    /\ Len(keystroke_features) = 1

\* C24 (as claimed): for every pair of the eight tracked fingers and every
\* n >= 1, suggest_trigraphs_for_gap(from_finger, to_finger, n) returns n
\* distinct 3-character strings, each with a key of from_finger immediately
\* followed by a key of to_finger at positions 1-2 or 2-3, whatever the
\* random choices.
C24_NSuggestions ==
    response.endpoint = "CoverageService.suggest_trigraphs_for_gap" =>
        LET result == response.stats
            HasPair(s, i) ==
                /\ get_finger(s[i]) = call_args[1]
                /\ get_finger(s[i + 1]) = call_args[2]
        IN  /\ Len(result) = call_args[3]
            /\ \A i, j \in DOMAIN result : i # j => result[i] # result[j]
            /\ \A i \in DOMAIN result :
                /\ Len(result[i]) = 3
                /\ HasPair(result[i], 1) \/ HasPair(result[i], 2)

\* C26 (as claimed): get_digraph_details and get_trigraph_details count an
\* occurrence only for keystrokes joined without a breakpoint: no counted
\* pair or triple of id-adjacent keystrokes has a null prev_key on its
\* second or third keystroke.
C26_DetailsRespectBreakpoints ==
    response.endpoint \in {"digraph_details", "trigraph_details"} =>
        \A i \in DOMAIN response.stats[1].joined :
            LET ids == response.stats[1].joined[i]
            IN  \A j \in 2..Len(ids) :
                    \A row \in KeystrokeRow(keystrokes, ids[j]) :
                        row.prev_key # Null

\* C27 (as claimed): after crop_session succeeds the session holds exactly
\* the keystrokes formerly at positions crop_start..crop_end, the reported
\* remaining_count is their number, and among them only the new first one
\* has its prev_key changed (to null when crop_start > 0); a rejected call
\* deletes nothing.
C27_CropFrame ==
    [][response'.endpoint = "crop_session" =>
        LET before == SessionKeystrokes(keystrokes, response'.session_id)
            after == SessionKeystrokes(keystrokes', response'.session_id)
            crop_start == response'.stats[1]
            crop_end == response'.stats[2]
        IN  IF response'.status = "cropped"
            THEN /\ Len(after) = crop_end - crop_start + 1
                 /\ response'.stats[3] = Len(after)
                 /\ \A i \in DOMAIN after :
                        IF i = 1 /\ crop_start > 0
                        THEN after[i] = [before[crop_start + i] EXCEPT
                                            !.prev_key = Null]
                        ELSE after[i] = before[crop_start + i]
            ELSE keystrokes' = keystrokes]_vars

\* how often a value occurs in a list
Occurrences(values, v) == Len(SelectSeq(values, LAMBDA x : x = v))

\* filtered and excluded together hold every sample of times as often as
\* times does, and filtered holds at least half of them
SplitsSamples(times, filtered, excluded) ==
    /\ \A v \in StatTimes :
        Occurrences(filtered, v) + Occurrences(excluded, v)
            = Occurrences(times, v)
    /\ 2 * Len(filtered) >= Len(times)
    /\ filtered # <<>>

\* C28: for a sample list with more than 3 values, filter_outliers_mad
\* splits it into a filtered and an excluded part with no sample lost or
\* duplicated, the filtered part holds at least half of the samples, and in
\* _process_stats and _process_detailed filtered_count + excluded_count =
\* count and the filtered average lies between min_time and max_time.
C28_FilterPartition ==
    Len(call_args) > 3 =>
        /\ response.endpoint = "filter_outliers_mad" =>
            SplitsSamples(call_args, response.stats[1].filtered,
                          response.stats[1].excluded)
        /\ response.endpoint \in {"PatternService._process_stats",
                                  "PatternService._process_detailed"} =>
            \A i \in DOMAIN response.stats :
                LET entry == response.stats[i]
                IN  /\ SplitsSamples(call_args, entry.filtered, entry.excluded)
                    /\ entry.filtered_count = Len(entry.filtered)
                    /\ entry.excluded_count = Len(entry.excluded)
                    /\ entry.filtered_count + entry.excluded_count
                            = entry.count
                    /\ entry.min_time <= entry.avg_time
                    /\ entry.avg_time <= entry.max_time

\* _process_stats or _process_detailed has answered for more than 3
\* samples of which the filter excluded some
C28_Witness ==
    /\ Len(call_args) > 3
    /\ response.endpoint \in {"PatternService._process_stats",
                              "PatternService._process_detailed"}
    /\ response.stats # <<>>
    /\ response.stats[1].excluded_count > 0
    /\ response.stats[1].avg_time < response.stats[1].raw_avg_time

\* the cells of a coverage matrix whose status is one of statuses
CellsWithStatus(matrix, statuses) ==
    {<<i, j>> \in (DOMAIN FINGERS) \X (DOMAIN FINGERS) :
        matrix[i][j].status \in statuses}

\* C29: in every get_coverage result, summary.covered_pairs is the number
\* of matrix cells with status adequate or good, summary.well_covered_pairs
\* is the number of cells with status good, and the number of gaps is 64
\* minus covered_pairs.
C29_SummaryMatchesMatrix ==
    response.endpoint = "coverage" =>
        LET coverage == response.coverage
        IN  /\ coverage.summary.covered_pairs =
                Cardinality(CellsWithStatus(coverage.matrix,
                                            {"adequate", "good"}))
            /\ coverage.summary.well_covered_pairs =
                Cardinality(CellsWithStatus(coverage.matrix, {"good"}))
            /\ Len(coverage.gaps) = 64 - coverage.summary.covered_pairs

\* a coverage answer with a cell of exactly MIN_SAMPLES_PER_PAIR samples:
\* covered, not well covered, and no longer a gap
C29_Witness ==
    /\ response.endpoint = "coverage"
    /\ response.coverage.summary.covered_pairs = 1
    /\ response.coverage.summary.well_covered_pairs = 0
    /\ Len(response.coverage.gaps) = 63
    /\ \E i \in DOMAIN FINGERS : \E j \in DOMAIN FINGERS :
        response.coverage.matrix[i][j].count = MIN_SAMPLES_PER_PAIR

\* the count of the cell of a pair in a coverage matrix
CellCount(matrix, pair) ==
    LET i == CHOOSE i \in DOMAIN FINGERS : FINGERS[i] = pair[1]
        j == CHOOSE j \in DOMAIN FINGERS : FINGERS[j] = pair[2]
    IN  matrix[i][j].count

\* C30 (as claimed): every coverage gap can be closed by collecting data:
\* for each of the 64 pairs of tracked fingers, the log collected for the
\* pair (keys of the layout table, annotations of the valid vocabulary)
\* makes get_coverage give the cell of the pair a count above 0.
C30_EveryGapCloses ==
    (response.endpoint = "coverage" /\ sessions # <<>>) =>
        CellCount(response.coverage.matrix, GapOf(sessions[1].id)) > 0

====
